---------------------------- MODULE Spec2Model ----------------------------
(***************************************************************************)
(* Verification model of the PolyClaude arbitrage scanner                  *)
(* (BeachTexture/plugin-polymarket).                                       *)
(*                                                                         *)
(* Subsystems, each with its own specification:                            *)
(*   SpecGate    TelegramBotService: per-market alert cooldown             *)
(*               (src/src/services/telegramBot.ts)                         *)
(*   SpecBuilder scanMarket / scanMarketForArbitrage as a function of one  *)
(*               market, its two order books and the scanner config        *)
(*   Spec        the scan entry points, one per behaviour:                 *)
(*               PolyClaudeService.runScan with its TerminalServer         *)
(*               (part_000, terminalServer.ts), the standalone             *)
(*               PolyClaudeServer.runScan (part_002) and the action        *)
(*               handler (scanIntraMarketArb.ts)                           *)
(*   SpecLive    Spec with every await of a running cycle settling         *)
(*   SpecTrack   addNearMiss, addLiveMarket and scanMarketForArbitrage of  *)
(*               part_002 called on their own                              *)
(*   SpecRisk    calculateRiskScore called on its own                      *)
(*   SpecAnalyze analyzeMarket of the serverless scanner (api/scan.js)     *)
(*   SpecConfig  PolyClaudeService.updateConfig and the scan that follows  *)
(*   SpecWindow  the two addAlert functions called on their own           *)
(*   SpecClear   SpecGate with clearCooldown, clearAllCooldowns and a      *)
(*               second TelegramBotService instance                        *)
(*   SpecAlerts  runScan of PolyClaudeService calling its gate             *)
(*   SpecAuto    PolyClaudeService with startAutoScan and stopAutoScan     *)
(*                                                                         *)
(* Numbers.  JavaScript numbers are modelled as exact integers/rationals:  *)
(* time in clock ticks, prices in thousandths (mills), and in units of     *)
(* 0.0001 for analyzeMarket.                                               *)
(***************************************************************************)
EXTENDS Integers, Sequences, FiniteSets, TLC

(***************************************************************************)
(* Bounds of the model                                                     *)
(***************************************************************************)
\* number of distinct market identifiers (condition_id)
NumMarkets == 2
\* last clock tick of the gate specification
MaxClock == 6
\* cooldownMs of the gate, in clock ticks (60000 ms in telegramBot.ts:104)
CooldownTicks == 2
\* longest market catalogue an upstream answer holds
MaxCatalogue == 3
\* scan cycles started per behaviour (caps the counters of the statistics)
MaxCycles == 2
\* capacity of the alert window (100 in terminalServer.ts:758 and
\* part_002:1701), scaled so that the window fills
AlertCapacity == 3

Markets == 1..NumMarkets

VARIABLES
    \* ---- TelegramBotService (telegramBot.ts) ----
    now,            \* Date.now(), in ticks
    lastAlertTime,  \* Map<string, number>: a function on the keys present
    tgEnabled,      \* config.enabled && botToken && chatId
    tgPc,           \* position of the running sendArbitrageAlert call
    tgCall,         \* the running / last call, with its observations
    \* ---- one evaluation of scanMarket ----
    bIn,            \* market, yesBook, noBook, config
    bOut,           \* the opportunity returned, or Null
    bPc,
    \* ---- PolyClaudeService (part_000) and its TerminalServer ----
    isScanning,     \* PolyClaudeService.isScanning
    stats,          \* PolyClaudeService.stats
    hasTelegram,    \* telegramBot !== null
    term,           \* TerminalServer.state: alerts, stats, isScanning
    scan,           \* the locals of the runScan invocation in progress
    svcObs,         \* observations: requests, cycles in progress, last cycle
    \* ---- the Polymarket API, as the scanners have seen it ----
    upstream,       \* the catalogue and the books of the markets fetched so far
    \* ---- the standalone server (part_002) ----
    srv,            \* PolyClaudeServer: isScanning, alerts, stats, runScan's locals
    nearMisses,     \* module-level list, sorted by deviation
    liveMarkets,    \* module-level list, sorted by liquidity
    \* ---- the action handler (scanIntraMarketArb.ts) ----
    act,            \* the invocation of scanIntraMarketArbAction.handler
    \* ---- single functions called on their own ----
    track,          \* the last call of addNearMiss / addLiveMarket / scanMarketForArbitrage
    riskCall,       \* the last two calls of calculateRiskScore
    an,             \* one call of analyzeMarket (api/scan.js)
    cfg,            \* updateConfig calls and one scan under the resulting config
    tgAux,          \* a second TelegramBotService instance, and the last clear call
    auto            \* scanInterval of PolyClaudeService and the timers that exist

gateVars == <<now, lastAlertTime, tgEnabled, tgPc, tgCall>>
builderVars == <<bIn, bOut, bPc>>
serviceVars == <<isScanning, stats, hasTelegram, term, scan, svcObs>>

serverVars == <<srv, nearMisses, liveMarkets>>
unitVars == <<track, riskCall, an, cfg, tgAux, auto>>

vars == <<gateVars, builderVars, serviceVars, upstream, serverVars, act, unitVars>>

otherThanGate == <<builderVars, serviceVars, upstream, serverVars, act, unitVars>>
otherThanBuilder == <<gateVars, serviceVars, upstream, serverVars, act, unitVars>>
otherThanService == <<gateVars, builderVars, serverVars, act, unitVars>>
otherThanServer == <<gateVars, builderVars, isScanning, stats, hasTelegram, term, scan, act,
                     unitVars>>
otherThanHandler == <<gateVars, builderVars, serviceVars, serverVars, unitVars>>
otherThanTrack == <<gateVars, builderVars, serviceVars, upstream, srv, act, riskCall, an,
                    cfg, tgAux, auto>>
otherThanRisk == <<gateVars, builderVars, serviceVars, upstream, serverVars, act, track, an,
                   cfg, tgAux, auto>>
otherThanAnalyze == <<gateVars, builderVars, serviceVars, upstream, serverVars, act, track,
                      riskCall, cfg, tgAux, auto>>
otherThanConfig == <<gateVars, builderVars, serviceVars, upstream, serverVars, act, track,
                     riskCall, an, tgAux, auto>>
otherThanClear == <<builderVars, serviceVars, upstream, serverVars, act, track, riskCall,
                    an, cfg, auto>>
otherThanAuto == <<gateVars, builderVars, upstream, serverVars, act, track, riskCall, an,
                   cfg, tgAux>>

(***************************************************************************)
(* TelegramBotService                                                      *)
(***************************************************************************)
cooldownMs == CooldownTicks

\* Map.get: the stored number, or Undefined (-1) when the key is absent
Undefined == 0 - 1
MapGet(map, k) == IF k \in DOMAIN map THEN map[k] ELSE Undefined

\* Map.set
MapSet(map, k, v) == [x \in (DOMAIN map) \cup {k} |-> IF x = k THEN v ELSE map[x]]

\* shouldSendAlert with the comparison of the cooldown turned into >=
shouldSendAlert_ge(map, marketId, t) ==
    LET lastTime == MapGet(map, marketId)
    IN  IF lastTime = Undefined \/ lastTime = 0 THEN TRUE
        ELSE t - lastTime >= cooldownMs

\* shouldSendAlert that never suppresses
shouldSendAlert_always(map, marketId, t) == TRUE

\* telegramBot.ts:114-118.  !lastTime holds for undefined and for 0.
shouldSendAlert(map, marketId, t) ==
    LET lastTime == MapGet(map, marketId)
    IN  IF lastTime = Undefined \/ lastTime = 0 THEN TRUE
        ELSE t - lastTime > cooldownMs

\* the outcomes of the transport (fetch + response.json()) of one sendMessage
SendOutcomes == {"ok", "not_ok", "error"}

\* a sendMessage that takes an error of the transport for a delivery
sendMessage_errorIsOk(enabled, outcome) == enabled /\ outcome # "not_ok"

\* telegramBot.ts:123-161: false when not configured, when result.ok is
\* false and when fetch throws; true otherwise
sendMessage(enabled, outcome) == enabled /\ outcome = "ok"

\* stamping whatever the outcome of the delivery
StampAfterSend_always(map, marketId, success, t) == MapSet(map, marketId, t)

\* telegramBot.ts:182-184: if (success) lastAlertTime.set(marketId, Date.now())
StampAfterSend(map, marketId, success, t) ==
    IF success THEN MapSet(map, marketId, t) ELSE map

\* outcomes: what the transport answered to each sendMessage of the call
NoCall ==
    [m |-> 0, checkAt |-> 0, prev |-> Undefined, before |-> << >>,
     sent |-> 0, outcomes |-> << >>, suppressed |-> FALSE, ret |-> "none"]

\* constructor, telegramBot.ts:101-109
GateInit ==
    /\ now = 1
    /\ lastAlertTime = << >>
    /\ tgEnabled \in BOOLEAN
    /\ tgPc = "idle"
    /\ tgCall = NoCall

GateIdle ==
    /\ now = 1
    /\ lastAlertTime = << >>
    /\ tgEnabled = TRUE
    /\ tgPc = "idle"
    /\ tgCall = NoCall

\* the clock advances, also while a send is awaited
Tick ==
    /\ now < MaxClock
    /\ now' = now + 1
    /\ UNCHANGED <<lastAlertTime, tgEnabled, tgPc, tgCall>>
    /\ UNCHANGED otherThanGate

\* the synchronous start of sendArbitrageAlert, telegramBot.ts:166-174: the
\* cooldown check and, when it passes, the first send
SendArbitrageAlertCheck(m) ==
    LET call == [m |-> m, checkAt |-> now, prev |-> MapGet(lastAlertTime, m),
                 before |-> lastAlertTime, sent |-> 0, outcomes |-> << >>,
                 suppressed |-> FALSE, ret |-> "none"]
    IN  IF ~shouldSendAlert(lastAlertTime, m, now)
        THEN /\ tgCall' = [call EXCEPT !.suppressed = TRUE, !.ret = "false"]
             /\ tgPc' = "idle"
        ELSE /\ tgCall' = [call EXCEPT !.sent = 1]
             /\ tgPc' = "markdown"

\* sendArbitrageAlert up to its first await, called while no other call of
\* the instance is running
SendArbitrageAlertBegin(m) ==
    /\ tgPc = "idle"
    /\ SendArbitrageAlertCheck(m)
    /\ UNCHANGED <<now, lastAlertTime, tgEnabled>>
    /\ UNCHANGED otherThanGate

\* the MarkdownV2 sendMessage resolves, telegramBot.ts:174-186
SendMarkdownDone(outcome) ==
    /\ tgPc = "markdown"
    /\ LET success == sendMessage(tgEnabled, outcome)
       IN  IF success
           THEN /\ lastAlertTime' = StampAfterSend(lastAlertTime, tgCall.m, success, now)
                /\ tgCall' = [tgCall EXCEPT !.ret = "true",
                                             !.outcomes = Append(@, outcome)]
                /\ tgPc' = "idle"
           ELSE /\ tgCall' = [tgCall EXCEPT !.sent = 2,
                                             !.outcomes = Append(@, outcome)]
                /\ tgPc' = "plain"
                /\ UNCHANGED lastAlertTime
    /\ UNCHANGED <<now, tgEnabled>>
    /\ UNCHANGED otherThanGate

\* the plain-text sendMessage resolves, telegramBot.ts:176-186
SendPlainDone(outcome) ==
    /\ tgPc = "plain"
    /\ LET success == sendMessage(tgEnabled, outcome)
       IN  /\ lastAlertTime' = StampAfterSend(lastAlertTime, tgCall.m, success, now)
           /\ tgCall' = [tgCall EXCEPT !.ret = IF success THEN "true" ELSE "false",
                                        !.outcomes = Append(@, outcome)]
           /\ tgPc' = "idle"
    /\ UNCHANGED <<now, tgEnabled>>
    /\ UNCHANGED otherThanGate

GateNext ==
    \/ Tick
    \/ \E m \in Markets : SendArbitrageAlertBegin(m)
    \/ \E o \in SendOutcomes : SendMarkdownDone(o)
    \/ \E o \in SendOutcomes : SendPlainDone(o)

\* a sendArbitrageAlert call has returned and no other is running
CallReturned == tgPc = "idle" /\ tgCall.ret # "none"

\* C2: for one market and successive sendArbitrageAlert calls, a call that
\* checks less than the cooldown after the last stamp is suppressed (returns
\* false, no send attempt); a call that checks more than the cooldown after
\* it is let through to the transport; and two successive successful
\* deliveries for the market are at least the cooldown apart.
C2_CooldownWindow ==
    CallReturned =>
        /\ (tgCall.prev # Undefined /\ tgCall.checkAt - tgCall.prev < cooldownMs)
              => (tgCall.suppressed /\ tgCall.sent = 0 /\ tgCall.ret = "false")
        /\ (tgCall.prev # Undefined /\ tgCall.checkAt - tgCall.prev > cooldownMs)
              => (~tgCall.suppressed /\ tgCall.sent >= 1)
        /\ (tgCall.prev # Undefined /\ tgCall.ret = "true")
              => lastAlertTime[tgCall.m] - tgCall.prev >= cooldownMs

\* a second successful delivery for a market that had been notified before
C2_Witness ==
    /\ CallReturned
    /\ tgCall.prev # Undefined
    /\ tgCall.ret = "true"
    /\ lastAlertTime[tgCall.m] > tgCall.prev

C4_FailedDeliveryKeepsCooldown ==
    /\ tgCall.ret # "true" => lastAlertTime = tgCall.before
    /\ tgCall.ret = "true" =>
          \A k \in Markets \ {tgCall.m} :
              MapGet(lastAlertTime, k) = MapGet(tgCall.before, k)

\* both send attempts failed for a market whose cooldown had expired
C4_Witness ==
    /\ CallReturned
    /\ tgCall.ret = "false"
    /\ tgCall.sent = 2
    /\ tgCall.prev # Undefined
    /\ lastAlertTime[tgCall.m] = tgCall.prev


(***************************************************************************)
(* Opportunity builder: scanMarket (PolyClaudeService) and                 *)
(* scanMarketForArbitrage (action, standalone server).                     *)
(*                                                                         *)
(* Units: prices and absolute profits in mills (0.001); a percentage is a  *)
(* rational [n, d] with d > 0; config.minProfitPercent in hundredths of a  *)
(* percent; the average spread in half mills (yesSpread + noSpread); the   *)
(* time to expiry in hours.                                                *)
(***************************************************************************)
\* the value a function returns for "no opportunity" (JavaScript null)
Null == [isNull |-> TRUE]

\* a best price that is absent (asks?.[0]?.price is undefined)
NoPrice == Undefined

\* !x of a JavaScript number-or-null: null and 0 are falsy
Falsy(x) == x = NoPrice \/ x = 0

RatLess(a, b) == a.n * b.d < b.n * a.d
RatLeq(a, b) == a.n * b.d <= b.n * a.d
Rat(n, d) == [n |-> n, d |-> d]

\* DEFAULT_CONFIG, part_000:22-27, and the standalone server's config,
\* part_002:1659
DEFAULT_CONFIG == [minProfitPercent |-> 50, maxRiskScore |-> 7, minLiquidity |-> 100]
ServerConfig == [minProfitPercent |-> 10, maxRiskScore |-> 8, minLiquidity |-> 10]

\* getRiskLevel, part_000:32-37
getRiskLevel(score) ==
    IF score <= 3 THEN "LOW"
    ELSE IF score <= 5 THEN "MEDIUM"
    ELSE IF score <= 7 THEN "HIGH"
    ELSE "EXTREME"

Min(a, b) == IF a <= b THEN a ELSE b

\* calculateRiskScore with a penalty of 3 for low liquidity and no ceiling
calculateRiskScore_uncapped(profitPercent, liquidity, spread, hoursToExpiry) ==
    LET liq == IF liquidity < 500 THEN 3 ELSE IF liquidity < 1000 THEN 1 ELSE 0
        spr == IF spread > 100 THEN 2 ELSE IF spread > 40 THEN 1 ELSE 0
        exp == IF hoursToExpiry < 24 THEN 2 ELSE IF hoursToExpiry < 7 * 24 THEN 1 ELSE 0
        mar == IF RatLess(profitPercent, Rat(1, 1)) THEN 1 ELSE 0
    IN  [score |-> 3 + liq + spr + exp + mar, factors |-> << >>]

\* calculateRiskScore with the two penalties of the expiry exchanged
calculateRiskScore_soonest(profitPercent, liquidity, spread, hoursToExpiry) ==
    LET liq == IF liquidity < 500 THEN 2 ELSE IF liquidity < 1000 THEN 1 ELSE 0
        spr == IF spread > 100 THEN 2 ELSE IF spread > 40 THEN 1 ELSE 0
        exp == IF hoursToExpiry < 24 THEN 1 ELSE IF hoursToExpiry < 7 * 24 THEN 2 ELSE 0
        mar == IF RatLess(profitPercent, Rat(1, 1)) THEN 1 ELSE 0
    IN  [score |-> Min(3 + liq + spr + exp + mar, 10), factors |-> << >>]

\* calculateRiskScore with the margin checked first
calculateRiskScore_marginFirst(profitPercent, liquidity, spread, hoursToExpiry) ==
    LET liq == IF liquidity < 500 THEN <<2, <<"low_liquidity">> >>
               ELSE IF liquidity < 1000 THEN <<1, <<"moderate_liquidity">> >>
               ELSE <<0, << >> >>
        spr == IF spread > 100 THEN <<2, <<"wide_spread">> >>
               ELSE IF spread > 40 THEN <<1, <<"moderate_spread">> >>
               ELSE <<0, << >> >>
        exp == IF hoursToExpiry < 24 THEN <<2, <<"expiring_soon">> >>
               ELSE IF hoursToExpiry < 7 * 24 THEN <<1, <<"short_expiry">> >>
               ELSE <<0, << >> >>
        mar == IF RatLess(profitPercent, Rat(1, 1)) THEN <<1, <<"thin_margin">> >>
               ELSE <<0, << >> >>
    IN  [score |-> Min(3 + liq[1] + spr[1] + exp[1] + mar[1], 10),
         factors |-> mar[2] \o liq[2] \o spr[2] \o exp[2]]

\* calculateRiskScore, part_000:42-81 (the same code in
\* scanIntraMarketArb.ts:42-85 and part_002:160-176)
calculateRiskScore(profitPercent, liquidity, spread, hoursToExpiry) ==
    LET liq == IF liquidity < 500 THEN <<2, <<"low_liquidity">> >>
               ELSE IF liquidity < 1000 THEN <<1, <<"moderate_liquidity">> >>
               ELSE <<0, << >> >>
        spr == IF spread > 100 THEN <<2, <<"wide_spread">> >>
               ELSE IF spread > 40 THEN <<1, <<"moderate_spread">> >>
               ELSE <<0, << >> >>
        exp == IF hoursToExpiry < 24 THEN <<2, <<"expiring_soon">> >>
               ELSE IF hoursToExpiry < 7 * 24 THEN <<1, <<"short_expiry">> >>
               ELSE <<0, << >> >>
        mar == IF RatLess(profitPercent, Rat(1, 1)) THEN <<1, <<"thin_margin">> >>
               ELSE <<0, << >> >>
        score == 3 + liq[1] + spr[1] + exp[1] + mar[1]
    IN  [score |-> Min(score, 10),
         factors |-> liq[2] \o spr[2] \o exp[2] \o mar[2]]

\* the rejection test on the profit with <= in place of <
BelowMinProfit_leq(arbDirection, grossProfitPercent, config) ==
    \/ arbDirection = "NONE"
    \/ RatLeq(grossProfitPercent, Rat(config.minProfitPercent, 100))

\* part_000:317: arbDirection === 'NONE' || grossProfitPercent < minProfitPercent
BelowMinProfit(arbDirection, grossProfitPercent, config) ==
    \/ arbDirection = "NONE"
    \/ RatLess(grossProfitPercent, Rat(config.minProfitPercent, 100))

\* part_000:327: config.minLiquidity && minLiquidity < config.minLiquidity
BelowMinLiquidity(minLiquidity, config) ==
    config.minLiquidity # 0 /\ minLiquidity < config.minLiquidity

\* the pricing with the bid of the YES token in the place of the ask of the
\* NO token
Pricing_bidForAsk(yesBestAsk, yesBestBid, noBestAsk, noBestBid) ==
    LET combinedAsk == yesBestAsk + yesBestBid
        combinedBid == yesBestBid + noBestBid
        buyBothProfit == 1000 - combinedAsk
        sellBothProfit == combinedBid - 1000
    IN  [combinedAsk |-> combinedAsk,
         combinedBid |-> combinedBid,
         buyBothProfit |-> buyBothProfit,
         sellBothProfit |-> sellBothProfit,
         arbDirection |-> IF buyBothProfit > 0 THEN "BUY_BOTH"
                          ELSE IF sellBothProfit > 0 THEN "SELL_BOTH"
                          ELSE "NONE",
         grossProfitPercent |->
             IF buyBothProfit > 0 THEN Rat(buyBothProfit * 100, combinedAsk)
             ELSE IF sellBothProfit > 0 THEN Rat(sellBothProfit * 100, 1000)
             ELSE Rat(0, 1)]

\* the pricing with the profit of buying both relative to 1, not to the cost
Pricing_overOne(yesBestAsk, yesBestBid, noBestAsk, noBestBid) ==
    LET combinedAsk == yesBestAsk + noBestAsk
        combinedBid == yesBestBid + noBestBid
        buyBothProfit == 1000 - combinedAsk
        sellBothProfit == combinedBid - 1000
    IN  [combinedAsk |-> combinedAsk,
         combinedBid |-> combinedBid,
         buyBothProfit |-> buyBothProfit,
         sellBothProfit |-> sellBothProfit,
         arbDirection |-> IF buyBothProfit > 0 THEN "BUY_BOTH"
                          ELSE IF sellBothProfit > 0 THEN "SELL_BOTH"
                          ELSE "NONE",
         grossProfitPercent |->
             IF buyBothProfit > 0 THEN Rat(buyBothProfit * 100, 1000)
             ELSE IF sellBothProfit > 0 THEN Rat(sellBothProfit * 100, 1000)
             ELSE Rat(0, 1)]

\* the prices combined, the two profits, the direction and the gross profit
\* in percent, part_000:300-315 (scanIntraMarketArb.ts:120-138,
\* part_002:199-227)
Pricing(yesBestAsk, yesBestBid, noBestAsk, noBestBid) ==
    LET combinedAsk == yesBestAsk + noBestAsk
        combinedBid == yesBestBid + noBestBid
        buyBothProfit == 1000 - combinedAsk
        sellBothProfit == combinedBid - 1000
    IN  [combinedAsk |-> combinedAsk,
         combinedBid |-> combinedBid,
         buyBothProfit |-> buyBothProfit,
         sellBothProfit |-> sellBothProfit,
         arbDirection |-> IF buyBothProfit > 0 THEN "BUY_BOTH"
                          ELSE IF sellBothProfit > 0 THEN "SELL_BOTH"
                          ELSE "NONE",
         grossProfitPercent |->
             IF buyBothProfit > 0 THEN Rat(buyBothProfit * 100, combinedAsk)
             ELSE IF sellBothProfit > 0 THEN Rat(sellBothProfit * 100, 1000)
             ELSE Rat(0, 1)]

\* scanMarket once both order books are in hand, part_000:291-401
\* (scanIntraMarketArb.ts:105-236, part_002:190-286)
\* the fee adjustment with the deduction applied to BUY_BOTH only
FeeAdjustment_buyOnly(arbDirection, grossProfitPercent, buyBothProfit, sellBothProfit) ==
    LET estimatedFees == 10
        estimatedGas == 2
        grossProfitAbsolute ==
            IF arbDirection = "BUY_BOTH" THEN buyBothProfit ELSE sellBothProfit
    IN  [estimatedFees |-> estimatedFees,
         estimatedGas |-> estimatedGas,
         netProfitPercent |->
             IF arbDirection = "BUY_BOTH"
             THEN Rat(grossProfitPercent.n * 5 - 6 * grossProfitPercent.d,
                      grossProfitPercent.d * 5)
             ELSE grossProfitPercent,
         grossProfitAbsolute |-> grossProfitAbsolute,
         netProfitAbsolute |->
             IF arbDirection = "BUY_BOTH"
             THEN grossProfitAbsolute - estimatedFees - estimatedGas
             ELSE grossProfitAbsolute,
         breakeven |-> estimatedFees + estimatedGas]

\* part_000:347-351 and 392, scanIntraMarketArb.ts:176-182 and 225: the fee
\* adjustment of an accepted opportunity. Amounts are in thousandths (0.01 is
\* 10, 0.002 is 2); the percentages are 0.01 * 100 = 1 and 0.002 * 100 = 1/5,
\* so the net percentage is gross - 6/5.
FeeAdjustment(arbDirection, grossProfitPercent, buyBothProfit, sellBothProfit) ==
    LET estimatedFees == 10
        estimatedGas == 2
        grossProfitAbsolute ==
            IF arbDirection = "BUY_BOTH" THEN buyBothProfit ELSE sellBothProfit
    IN  [estimatedFees |-> estimatedFees,
         estimatedGas |-> estimatedGas,
         netProfitPercent |->
             Rat(grossProfitPercent.n * 5 - 6 * grossProfitPercent.d,
                 grossProfitPercent.d * 5),
         grossProfitAbsolute |-> grossProfitAbsolute,
         netProfitAbsolute |-> grossProfitAbsolute - estimatedFees - estimatedGas,
         breakeven |-> estimatedFees + estimatedGas]

\* the sizing without the cap on the recommended size
Sizing_uncapped(minLiquidity) ==
    [recommendedSize |-> minLiquidity, maxSize |-> minLiquidity * 5]

\* part_000:397-398, scanIntraMarketArb.ts:230-231: the sizing of an accepted
\* opportunity, in tenths of a unit of liquidity: minLiquidity * 0.1 is
\* minLiquidity tenths, the cap 1000 is 10000 tenths, minLiquidity * 0.5 is
\* 5 * minLiquidity tenths
Sizing(minLiquidity) ==
    [recommendedSize |-> Min(minLiquidity, 10000), maxSize |-> minLiquidity * 5]

\* the confidence with the middle band widened to a score of 6
confidenceScore_wide(riskScore) ==
    IF riskScore <= 3 THEN 95 ELSE IF riskScore <= 6 THEN 80 ELSE 60

\* part_000:396, scanIntraMarketArb.ts:229: the confidence of an accepted
\* opportunity, in hundredths
confidenceScore(riskScore) ==
    IF riskScore <= 3 THEN 95 ELSE IF riskScore <= 5 THEN 80 ELSE 60

EvaluateBooks(market, yesBook, noBook, config) ==
    IF ~yesBook.fetched \/ ~noBook.fetched THEN Null
    ELSE
    LET yesBestAsk == yesBook.ask
        yesBestBid == yesBook.bid
        noBestAsk == noBook.ask
        noBestBid == noBook.bid
    IN
    IF Falsy(yesBestAsk) \/ Falsy(yesBestBid) \/ Falsy(noBestAsk) \/ Falsy(noBestBid)
    THEN Null
    ELSE
    LET intraMarketData == Pricing(yesBestAsk, yesBestBid, noBestAsk, noBestBid)
        buyBothProfit == intraMarketData.buyBothProfit
        sellBothProfit == intraMarketData.sellBothProfit
        arbDirection == intraMarketData.arbDirection
        grossProfitPercent == intraMarketData.grossProfitPercent
    IN
    IF BelowMinProfit(arbDirection, grossProfitPercent, config) THEN Null
    ELSE
    LET minLiquidity == Min(yesBook.liquidity, noBook.liquidity)
    IN
    IF BelowMinLiquidity(minLiquidity, config) THEN Null
    ELSE
    LET avgSpread == (yesBestAsk - yesBestBid) + (noBestAsk - noBestBid)
        risk == calculateRiskScore(grossProfitPercent, minLiquidity, avgSpread,
                                   market.hoursToExpiry)
    IN
    IF risk.score > config.maxRiskScore THEN Null
    ELSE
    LET fees == FeeAdjustment(arbDirection, grossProfitPercent, buyBothProfit,
                              sellBothProfit)
        sizing == Sizing(minLiquidity)
    IN  [isNull |-> FALSE,
         status |-> "active",
         marketId |-> market.condition_id,
         arbDirection |-> arbDirection,
         intraMarketData |-> intraMarketData,
         grossProfitPercent |-> grossProfitPercent,
         grossProfitAbsolute |-> fees.grossProfitAbsolute,
         estimatedFees |-> fees.estimatedFees,
         estimatedGas |-> fees.estimatedGas,
         netProfitPercent |-> fees.netProfitPercent,
         netProfitAbsolute |-> fees.netProfitAbsolute,
         breakeven |-> fees.breakeven,
         riskLevel |-> getRiskLevel(risk.score),
         riskScore |-> risk.score,
         riskFactors |-> risk.factors,
         confidenceScore |-> confidenceScore(risk.score),
         recommendedSize |-> sizing.recommendedSize,
         maxSize |-> sizing.maxSize,
         liquidity |-> minLiquidity]

\* scanMarket, part_000:281-405: market.tokens[1].token_id throws on a market
\* with fewer than two tokens and the catch returns null
scanMarket(market, yesBook, noBook, config) ==
    IF market.tokens < 2 THEN Null
    ELSE EvaluateBooks(market, yesBook, noBook, config)

\* ---- inputs of one evaluation ----
FailedBook == [fetched |-> FALSE, ask |-> NoPrice, bid |-> NoPrice, liquidity |-> 0]

YesBooks ==
    {FailedBook} \cup
    [fetched : {TRUE}, ask : {NoPrice, 0, 400, 500, 600}, bid : {NoPrice, 380, 500, 580},
     liquidity : {90, 100, 600, 1000, 20000}]
NoBooks ==
    {FailedBook} \cup
    [fetched : {TRUE}, ask : {NoPrice, 400, 550, 600}, bid : {NoPrice, 505, 530, 580},
     liquidity : {100, 1000, 20000}]
BuilderMarkets ==
    [condition_id : {1}, tokens : {1, 2}, hoursToExpiry : {0 - 24, 12, 24, 168}]
BuilderConfigs ==
    [minProfitPercent : {10, 50, 2500}, maxRiskScore : {7, 8},
     minLiquidity : {0, 100}]

NoInput == [market |-> Null, yesBook |-> FailedBook, noBook |-> FailedBook,
            config |-> DEFAULT_CONFIG]

BuilderIdle ==
    /\ bIn = NoInput
    /\ bOut = Null
    /\ bPc = "off"

BuilderInit ==
    /\ bIn \in [market : BuilderMarkets, yesBook : YesBooks, noBook : NoBooks,
                config : BuilderConfigs]
    /\ bOut = Null
    /\ bPc = "ready"

\* one call of scanMarket
ScanMarketCall ==
    /\ bPc = "ready"
    /\ bOut' = scanMarket(bIn.market, bIn.yesBook, bIn.noBook, bIn.config)
    /\ bPc' = "done"
    /\ UNCHANGED bIn
    /\ UNCHANGED otherThanBuilder

BuilderNext == ScanMarketCall

\* the books of the evaluated input are usable: both fetched, four prices
BooksUsable ==
    /\ bIn.market.tokens >= 2
    /\ bIn.yesBook.fetched /\ bIn.noBook.fetched
    /\ bIn.yesBook.ask > 0 /\ bIn.yesBook.bid > 0
    /\ bIn.noBook.ask > 0 /\ bIn.noBook.bid > 0

\* the acceptance policy in the claim's words, from the raw input: the
\* direction is not NONE, gross >= minProfitPercent, the liquidity floor is
\* unset or met, and the risk score is within maxRiskScore
PolicyAccepts ==
    LET cAsk == bIn.yesBook.ask + bIn.noBook.ask
        cBid == bIn.yesBook.bid + bIn.noBook.bid
        hasDirection == cAsk < 1000 \/ cBid > 1000
        \* gross percent in hundredths of a percent, times the denominator
        grossOk == IF cAsk < 1000
                   THEN (1000 - cAsk) * 10000 >= bIn.config.minProfitPercent * cAsk
                   ELSE (cBid - 1000) * 10 >= bIn.config.minProfitPercent
        gross == IF cAsk < 1000 THEN Rat((1000 - cAsk) * 100, cAsk)
                 ELSE Rat(cBid - 1000, 10)
        depth == Min(bIn.yesBook.liquidity, bIn.noBook.liquidity)
        liquidityOk == bIn.config.minLiquidity = 0 \/ depth >= bIn.config.minLiquidity
        spread == (bIn.yesBook.ask - bIn.yesBook.bid) + (bIn.noBook.ask - bIn.noBook.bid)
        score == calculateRiskScore(gross, depth, spread, bIn.market.hoursToExpiry).score
    IN  hasDirection /\ grossOk /\ liquidityOk /\ score <= bIn.config.maxRiskScore

\* C7: for usable books scanMarket returns an opportunity if and only if the
\* direction is not NONE, grossProfitPercent >= minProfitPercent (equality
\* accepted), minLiquidity is unset/zero or met, and riskScore <= maxRiskScore;
\* otherwise it returns null, and every returned record has status 'active'.
C7_AcceptancePolicy ==
    bPc = "done" =>
        /\ BooksUsable => (bOut # Null <=> PolicyAccepts)
        /\ ~BooksUsable => bOut = Null
        /\ bOut # Null => bOut.status = "active"

\* an opportunity accepted with grossProfitPercent exactly minProfitPercent
C7_Witness ==
    /\ bPc = "done"
    /\ BooksUsable
    /\ bOut # Null
    /\ bOut.grossProfitPercent.n * 100
          = bIn.config.minProfitPercent * bOut.grossProfitPercent.d

(***************************************************************************)
(* What the upstream answers to one scanMarket call: the market's token    *)
(* list, its two order books and its end date.                             *)
(***************************************************************************)
Book(ask, bid, liquidity) ==
    [fetched |-> TRUE, ask |-> ask, bid |-> bid, liquidity |-> liquidity]

CaseFetchFailed ==
    [tokens |-> 2, yesBook |-> FailedBook, noBook |-> Book(550, 530, 1000),
     hoursToExpiry |-> 720]
CaseNoBestBid ==
    [tokens |-> 2, yesBook |-> Book(400, NoPrice, 1000), noBook |-> Book(550, 530, 1000),
     hoursToExpiry |-> 720]
CaseOneToken ==
    [tokens |-> 1, yesBook |-> Book(400, 380, 1000), noBook |-> Book(550, 530, 1000),
     hoursToExpiry |-> 720]
\* combinedAsk 1.02, combinedBid 0.99: no direction
CaseNoArbitrage ==
    [tokens |-> 2, yesBook |-> Book(500, 490, 1000), noBook |-> Book(520, 500, 1000),
     hoursToExpiry |-> 720]
\* combinedAsk 0.99: gross 1.01 %, net below 1 %
CaseLowProfit ==
    [tokens |-> 2, yesBook |-> Book(400, 390, 1000), noBook |-> Book(590, 580, 1000),
     hoursToExpiry |-> 720]
\* combinedAsk 0.94: gross 6.38 %, net 5.18 %
CaseHighProfit ==
    [tokens |-> 2, yesBook |-> Book(400, 390, 2000), noBook |-> Book(540, 530, 1000),
     hoursToExpiry |-> 720]

ScanCases ==
    {CaseFetchFailed, CaseNoBestBid, CaseOneToken, CaseNoArbitrage,
     CaseLowProfit, CaseHighProfit}

MarketOf(id, case) ==
    [condition_id |-> id, tokens |-> case.tokens, hoursToExpiry |-> case.hoursToExpiry]

\* a raw catalogue entry: condition_id, active, closed
Open == [active |-> TRUE, closed |-> FALSE, enable_order_book |-> TRUE]
CatalogueEntries ==
    [condition_id : Markets, flags : {Open}]
        \cup {[condition_id |-> 1, flags |-> [Open EXCEPT !.active = FALSE]],
              [condition_id |-> 1, flags |-> [Open EXCEPT !.enable_order_book = FALSE]],
              [condition_id |-> NumMarkets, flags |-> [Open EXCEPT !.closed = TRUE]]}

RECURSIVE SeqsUpTo(_, _)
SeqsUpTo(S, n) ==
    IF n = 0 THEN {<< >>}
    ELSE LET shorter == SeqsUpTo(S, n - 1)
         IN  shorter \cup {Append(q, x) : q \in shorter, x \in S}

Catalogues == SeqsUpTo(CatalogueEntries, MaxCatalogue)

\* markets.filter((m) => m.active && !m.closed), part_000:224
IsActive(m) == m.flags.active /\ ~m.flags.closed
ActiveMarkets(markets) == SelectSeq(markets, IsActive)

(***************************************************************************)
(* PolyClaudeService.runScan (part_000:202-276) and TerminalServer         *)
(* (terminalServer.ts:603-806).                                            *)
(***************************************************************************)
\* batchSize of PolyClaudeService.runScan (10 in part_000:229), scaled so
\* that a catalogue of MaxCatalogue markets spans two batches
batchSize == 2

\* significantOpps.slice(0, 3), part_000:262
MaxAlertsPerScan == 3

IsOpportunity(o) == o # Null

\* a.netProfitPercent >= b.netProfitPercent
NetGeq(a, b) == RatLeq(b.netProfitPercent, a.netProfitPercent)

\* a sort that leaves the array as it is
SortByNetDesc_none(seq) == seq

\* a sort that is not stable: elements of the same net profit change places
SortByNetDesc_unstable(seq) ==
    LET Before(j, k) == \/ ~NetGeq(seq[k], seq[j])
                        \/ NetGeq(seq[k], seq[j]) /\ NetGeq(seq[j], seq[k]) /\ j > k
        place == [k \in 1..Len(seq) |->
                     1 + Cardinality({j \in 1..Len(seq) : Before(j, k)})]
    IN  [p \in 1..Len(seq) |-> seq[CHOOSE k \in 1..Len(seq) : place[k] = p]]

\* Array.prototype.sort with (a, b) => b.netProfitPercent - a.netProfitPercent:
\* a stable sort, descending.  The element at index k goes behind the
\* elements of a greater net profit and behind the earlier elements of the
\* same net profit.
SortByNetDesc(seq) ==
    LET Before(j, k) == \/ ~NetGeq(seq[k], seq[j])
                        \/ NetGeq(seq[k], seq[j]) /\ NetGeq(seq[j], seq[k]) /\ j < k
        place == [k \in 1..Len(seq) |->
                     1 + Cardinality({j \in 1..Len(seq) : Before(j, k)})]
    IN  [p \in 1..Len(seq) |-> seq[CHOOSE k \in 1..Len(seq) : place[k] = p]]

\* F applied to the value of x, x evaluated once
ApplyTo(x, F(_)) == CHOOSE r \in {F(v) : v \in {x}} : TRUE

\* array.slice(0, n)
Slice0(seq, n) == SubSeq(seq, 1, Min(n, Len(seq)))

\* priority of an alert, terminalServer.ts:744-751
Priority(opp) ==
    IF RatLeq(Rat(3, 1), opp.netProfitPercent) THEN "CRITICAL"
    ELSE IF RatLeq(Rat(2, 1), opp.netProfitPercent) THEN "HIGH"
    ELSE IF RatLeq(Rat(1, 1), opp.netProfitPercent) THEN "MEDIUM"
    ELSE "LOW"

CountActive(alerts) ==
    Cardinality({k \in 1..Len(alerts) : alerts[k].opportunity.status = "active"})

\* addAlert that keeps the last records of an overfull window
addAlert_dropNewest(state, opportunity) ==
    LET alert == [opportunity |-> opportunity, priority |-> Priority(opportunity)]
        unshifted == <<alert>> \o state.alerts
        alerts == IF Len(unshifted) > AlertCapacity
                  THEN SubSeq(unshifted, 2, Len(unshifted)) ELSE unshifted
    IN  [state EXCEPT
            !.alerts = alerts,
            !.stats = [state.stats EXCEPT
                          !.totalOpportunitiesFound = @ + 1,
                          !.activeOpportunities = CountActive(alerts)]]

\* TerminalServer.addAlert, terminalServer.ts:736-767
addAlert(state, opportunity) ==
    LET alert == [opportunity |-> opportunity, priority |-> Priority(opportunity)]
        unshifted == <<alert>> \o state.alerts
        alerts == IF Len(unshifted) > AlertCapacity
                  THEN Slice0(unshifted, AlertCapacity) ELSE unshifted
    IN  [state EXCEPT
            !.alerts = alerts,
            !.stats = [state.stats EXCEPT
                          !.totalOpportunitiesFound = @ + 1,
                          !.activeOpportunities = CountActive(alerts)]]

\* TerminalServer.addAlerts, terminalServer.ts:772-776
addAlerts(state, opportunities) ==
    LET After[k \in 0..Len(opportunities)] ==
            IF k = 0 THEN state
            ELSE ApplyTo(After[k - 1], LAMBDA before : addAlert(before, opportunities[k]))
    IN  After[Len(opportunities)]

\* TerminalServer.updateStats with a full ScannerStats, terminalServer.ts:781-784
updateStats(state, updates) == [state EXCEPT !.stats = updates]

\* TerminalServer.setScanning, terminalServer.ts:789-791
setScanning(state, flag) == [state EXCEPT !.isScanning = flag]

InitialStats ==
    [totalScans |-> 0, totalOpportunitiesFound |-> 0, activeOpportunities |-> 0,
     marketsScanned |-> 0]

NoScan ==
    [pc |-> "idle", activeMarkets |-> << >>, i |-> 0, pending |-> {},
     results |-> << >>, opportunities |-> << >>, queue |-> << >>,
     keysBefore |-> << >>]

\* found: the opportunities accepted by the cycles that have ended, summed
NoObservation ==
    [req |-> "none", active |-> 0, cycles |-> 0, found |-> 0, last |-> Null]

\* nothing has been asked of the upstream yet
UpstreamInit == upstream = [known |-> FALSE, markets |-> << >>, books |-> << >>]

\* constructors, part_000:99-112 and terminalServer.ts:608-629; start(),
\* part_000:117-144, creates the terminal server and maybe the Telegram bot
ServiceInit ==
    /\ isScanning = FALSE
    /\ stats = InitialStats
    /\ hasTelegram \in BOOLEAN
    /\ term = [alerts |-> << >>, stats |-> InitialStats, isScanning |-> FALSE]
    /\ scan = NoScan
    /\ svcObs = NoObservation

ServiceOff ==
    /\ isScanning = FALSE
    /\ stats = InitialStats
    /\ hasTelegram = FALSE
    /\ term = [alerts |-> << >>, stats |-> InitialStats, isScanning |-> FALSE]
    /\ scan = [NoScan EXCEPT !.pc = "off"]
    /\ svcObs = NoObservation

\* the upstream answers the same way throughout a behaviour: the same
\* catalogue, and the same books for the same market
CatalogueAnswers == IF upstream.known THEN {upstream.markets} ELSE Catalogues
AnswersFor(id) ==
    IF id \in DOMAIN upstream.books THEN {upstream.books[id]} ELSE ScanCases

\* the keys (market identifiers) of the alert window, in order
AlertKeys(alerts) == [k \in 1..Len(alerts) |-> alerts[k].opportunity.marketId]

\* indices of the batch that starts after index i
BatchIndices(i, n, size) == {k \in 1..n : i < k /\ k <= i + size}

\* the guard of runScan without the single-flight test
SingleFlight_off(flag) == FALSE

\* part_000:203: if (this.isScanning) return []
SingleFlight(flag) == flag

\* the finally block without the reset of the flag
FlagAfterScan_kept(kind) == kind = "empty"

\* the finally block, part_000:272-275: this.isScanning = false on every
\* way out of the try
FlagAfterScan(kind) == FALSE

\* the return of runScan through the finally block, part_000:272-275
ReturnFromScan(kind, ret, opportunities) ==
    /\ isScanning' = FlagAfterScan(kind)
    /\ scan' = NoScan
    /\ svcObs' = [svcObs EXCEPT
                     !.active = @ - 1,
                     !.found = @ + Len(opportunities),
                     !.last = [isNull |-> FALSE, kind |-> kind, ret |-> ret,
                               prevKind |-> IF svcObs.last.isNull THEN "none"
                                            ELSE svcObs.last.kind,
                               markets |-> scan.activeMarkets,
                               evaluated |-> DOMAIN scan.results,
                               opportunities |-> opportunities,
                               keysBefore |-> scan.keysBefore]]

\* runScan up to its first await, part_000:202-213.  A request is a timer
\* tick (part_000:183-185), the initial scan or a manual call.
RunScanEnter ==
    IF SingleFlight(isScanning)
    THEN /\ svcObs' = [svcObs EXCEPT !.req = "dropped"]
         /\ UNCHANGED <<isScanning, stats, term, scan>>
    ELSE /\ svcObs.cycles < MaxCycles
         /\ isScanning' = TRUE
         /\ term' = setScanning(term, TRUE)
         /\ scan' = [NoScan EXCEPT !.pc = "getMarkets",
                                   !.keysBefore = AlertKeys(term.alerts)]
         /\ svcObs' = [svcObs EXCEPT !.req = "started", !.active = @ + 1,
                                     !.cycles = @ + 1]
         /\ UNCHANGED stats

\* a runScan request on its own; a second dropped request in a row changes
\* nothing
RunScan ==
    /\ scan.pc # "off"
    /\ SingleFlight(isScanning) => svcObs.req # "dropped"
    /\ RunScanEnter
    /\ UNCHANGED <<hasTelegram, upstream, otherThanService>>

\* part_000:243-268 up to the first sendArbitrageAlert: sort, statistics,
\* terminal display, and the alerts to send
NewStats(activeMarkets, opportunities) ==
    [stats EXCEPT
        !.totalScans = @ + 1,
        !.marketsScanned = Len(activeMarkets),
        !.totalOpportunitiesFound = @ + Len(opportunities),
        !.activeOpportunities = Len(opportunities)]

\* alerts for every opportunity of the cycle
AlertQueue_all(opportunities) == IF hasTelegram THEN opportunities ELSE << >>

\* part_000:260-262: opportunities.filter(netProfitPercent >= 1).slice(0, 3),
\* when there is a bot and the cycle found anything
AlertQueue(opportunities) ==
    LET AtLeastOne(o) == RatLeq(Rat(1, 1), o.netProfitPercent)
        significantOpps == SelectSeq(opportunities, AtLeastOne)
    IN  IF hasTelegram /\ Len(opportunities) > 0
        THEN Slice0(significantOpps, MaxAlertsPerScan) ELSE << >>

FinishScan(activeMarkets, found) ==
    \E opportunities \in {SortByNetDesc(found)} :
    \E newStats \in {NewStats(activeMarkets, opportunities)} :
    \E shown \in {addAlerts(updateStats(term, newStats), opportunities)} :
    \E queue \in {AlertQueue(opportunities)} :
        /\ stats' = newStats
        /\ IF queue = << >>
           THEN /\ term' = setScanning(shown, FlagAfterScan("done"))
                /\ ReturnFromScan("done", opportunities, opportunities)
           ELSE /\ term' = shown
                /\ scan' = [scan EXCEPT !.pc = "alerting", !.opportunities = opportunities,
                                        !.queue = queue, !.pending = {}]
                /\ UNCHANGED <<isScanning, svcObs>>

\* initializeClobClient and getMarkets settle, part_000:213-241
GetMarketsDone(outcome, markets) ==
    /\ scan.pc = "getMarkets"
    /\ markets \in CatalogueAnswers
    /\ CASE outcome = "throws" ->
              /\ term' = setScanning(term, FlagAfterScan("threw"))
              /\ ReturnFromScan("threw", << >>, << >>)
              /\ UNCHANGED <<stats, upstream>>
         [] outcome = "markets" /\ markets = << >> ->
              /\ term' = setScanning(term, FlagAfterScan("empty"))
              /\ ReturnFromScan("empty", << >>, << >>)
              /\ upstream' = [upstream EXCEPT !.known = TRUE, !.markets = markets]
              /\ UNCHANGED stats
         [] outcome = "markets" /\ markets # << >> ->
              /\ upstream' = [upstream EXCEPT !.known = TRUE, !.markets = markets]
              /\ LET activeMarkets == ActiveMarkets(markets)
                 IN  IF activeMarkets = << >>
                     THEN FinishScan(activeMarkets, << >>)
                     ELSE /\ scan' = [scan EXCEPT
                                       !.pc = "batch",
                                       !.activeMarkets = activeMarkets,
                                       !.i = 0,
                                       !.pending = BatchIndices(0, Len(activeMarkets),
                                                                batchSize)]
                          /\ UNCHANGED <<isScanning, stats, term, svcObs>>
    /\ UNCHANGED <<hasTelegram, otherThanService>>

\* what the promise of scanMarket settles to when the inner catch is missing
ScanMarketSettles_nocatch(market, yesBook, noBook, config) ==
    IF market.tokens < 2 \/ ~yesBook.fetched \/ ~noBook.fetched
    THEN [rejected |-> TRUE, value |-> Null]
    ELSE [rejected |-> FALSE, value |-> EvaluateBooks(market, yesBook, noBook, config)]

\* what the promise of scanMarket settles to, part_000:281-405: the
\* try/catch and the .catch(() => null) of each fetch turn every failure
\* into null, so the promise never rejects
ScanMarketSettles(market, yesBook, noBook, config) ==
    [rejected |-> FALSE, value |-> scanMarket(market, yesBook, noBook, config)]

\* the scanMarket call of one market of the batch settles, part_000:233-235
ScanMarketDone(k, case) ==
    /\ scan.pc = "batch"
    /\ k \in scan.pending
    /\ case \in AnswersFor(scan.activeMarkets[k].condition_id)
    /\ upstream' = [upstream EXCEPT
                      !.books = MapSet(@, scan.activeMarkets[k].condition_id, case)]
    /\ \E settled \in {ScanMarketSettles(
                             MarketOf(scan.activeMarkets[k].condition_id, case),
                             case.yesBook, case.noBook, DEFAULT_CONFIG)} :
           IF settled.rejected
           THEN \* Promise.all rejects: the catch of runScan, part_000:269-271
                /\ term' = setScanning(term, FlagAfterScan("scan_error"))
                /\ ReturnFromScan("scan_error", << >>, << >>)
           ELSE /\ scan' = [scan EXCEPT
                              !.pending = @ \ {k},
                              !.results = MapSet(@, k, settled.value)]
                /\ UNCHANGED <<isScanning, term, svcObs>>
    /\ UNCHANGED <<stats, hasTelegram, otherThanService>>

\* the results of the batch that starts after index i, in the order of the
\* batch, nulls dropped
BatchResults(results, i, n) ==
    LET Pick[k \in 0..n] ==
            IF k = 0 THEN << >>
            ELSE IF k \in DOMAIN results /\ i < k /\ IsOpportunity(results[k])
                 THEN Append(Pick[k - 1], results[k])
                 ELSE Pick[k - 1]
    IN  Pick[n]

\* an await that resumes as soon as the first market of the batch settles
AllSettled_first(pending, batch) == pending # batch

\* await Promise.all(batch.map(...)), part_000:233 and part_002:1729: the
\* loop resumes when every market of the batch has settled
AllSettled(pending, batch) == pending = {}

\* Promise.all of the batch resolves, part_000:233-241, and after the last
\* batch the rest of runScan up to the first alert
BatchJoin ==
    /\ scan.pc = "batch"
    /\ AllSettled(scan.pending,
                  BatchIndices(scan.i, Len(scan.activeMarkets), batchSize))
    /\ \E opportunities \in {scan.opportunities
                                \o BatchResults(scan.results, scan.i,
                                                Len(scan.activeMarkets))} :
           IF scan.i + batchSize < Len(scan.activeMarkets)
           THEN /\ scan' = [scan EXCEPT !.pc = "delay", !.opportunities = opportunities]
                /\ UNCHANGED <<isScanning, stats, term, svcObs>>
           ELSE FinishScan(scan.activeMarkets, opportunities)
    /\ UNCHANGED <<hasTelegram, upstream, otherThanService>>

\* the 100 ms pause between batches ends, part_000:238-240, and the next
\* batch starts
DelayDone ==
    /\ scan.pc = "delay"
    /\ scan' = [scan EXCEPT
                  !.pc = "batch",
                  !.i = @ + batchSize,
                  !.pending = BatchIndices(scan.i + batchSize, Len(scan.activeMarkets),
                                           batchSize)]
    /\ UNCHANGED <<isScanning, stats, hasTelegram, term, svcObs, upstream,
                   otherThanService>>

\* one awaited sendArbitrageAlert settles, part_000:262-264.  The gate's own
\* state is the subject of SpecGate; runScan ignores the value returned.
AlertDone(outcome) ==
    /\ scan.pc = "alerting"
    /\ CASE outcome = "throws" ->
              /\ term' = setScanning(term, FlagAfterScan("alert_error"))
              /\ ReturnFromScan("alert_error", << >>, scan.opportunities)
         [] outcome = "returns" /\ Len(scan.queue) = 1 ->
              /\ term' = setScanning(term, FlagAfterScan("done"))
              /\ ReturnFromScan("done", scan.opportunities, scan.opportunities)
         [] outcome = "returns" /\ Len(scan.queue) > 1 ->
              /\ scan' = [scan EXCEPT !.queue = Tail(@)]
              /\ UNCHANGED <<isScanning, term, svcObs>>
    /\ UNCHANGED <<stats, hasTelegram, upstream, otherThanService>>

\* the awaits of a running cycle settle
ServiceStep ==
    \/ \E outcome \in {"throws", "markets"}, markets \in CatalogueAnswers :
           GetMarketsDone(outcome, markets)
    \/ \E k \in scan.pending : \E case \in ScanCases : ScanMarketDone(k, case)
    \/ BatchJoin
    \/ DelayDone
    \/ \E outcome \in {"throws", "returns"} : AlertDone(outcome)

ServiceNext ==
    \/ RunScan
    \/ ServiceStep

(***************************************************************************)
(* The standalone server, part_002: PolyClaudeServer and the module-level  *)
(* nearMisses and liveMarkets lists.                                       *)
(***************************************************************************)
\* batchSize of PolyClaudeServer.runScan (5 in part_002:1725), scaled like
\* batchSize
serverBatchSize == 2

\* the loop bound of PolyClaudeServer.runScan, part_002:1727
ScanLimit == 100

\* part_002:20-21
MAX_NEAR_MISSES == 20
MAX_LIVE_MARKETS == 15

Abs(x) == IF x < 0 THEN 0 - x ELSE x

\* index of the first element that satisfies Test, or 0 (findIndex's -1)
FindIndex(seq, Test(_)) ==
    LET hits == {k \in 1..Len(seq) : Test(seq[k])}
    IN  IF hits = {} THEN 0 ELSE CHOOSE k \in hits : \A j \in hits : k <= j

\* array.splice(idx, 1) and array.splice(idx, 0, x), 1-based
RemoveAt(seq, idx) == SubSeq(seq, 1, idx - 1) \o SubSeq(seq, idx + 1, Len(seq))
InsertAt(seq, idx, x) == SubSeq(seq, 1, idx - 1) \o <<x>> \o SubSeq(seq, idx, Len(seq))

\* the three steps shared by addNearMiss and addLiveMarket: drop the entry
\* of the same slug, insert before the first entry that ranks after the new
\* one, cut to the capacity
TrackSorted(list, entry, RanksAfter(_), capacity) ==
    LET SameSlug(e) == e.slug = entry.slug
        existingIdx == FindIndex(list, SameSlug)
        without == IF existingIdx # 0 THEN RemoveAt(list, existingIdx) ELSE list
        insertIdx == FindIndex(without, RanksAfter)
        inserted == IF insertIdx = 0 THEN Append(without, entry)
                    ELSE InsertAt(without, insertIdx, entry)
    IN  Slice0(inserted, capacity)

\* addNearMiss that pushes the new entry at the end of the list
addNearMiss_push(list, market, combinedAsk) ==
    LET nearMiss == [slug |-> market.condition_id,
                     deviation |-> Abs(1000 - combinedAsk),
                     direction |-> IF combinedAsk < 1000 THEN "UNDERPRICED"
                                   ELSE "OVERPRICED"]
        Never(n) == FALSE
    IN  TrackSorted(list, nearMiss, Never, MAX_NEAR_MISSES)

\* addNearMiss, part_002:64-104; the slug of a market stands for the market
addNearMiss(list, market, combinedAsk) ==
    LET deviation == Abs(1000 - combinedAsk)
        nearMiss == [slug |-> market.condition_id, deviation |-> deviation,
                     direction |-> IF combinedAsk < 1000 THEN "UNDERPRICED"
                                   ELSE "OVERPRICED"]
        Farther(n) == n.deviation > deviation
    IN  TrackSorted(list, nearMiss, Farther, MAX_NEAR_MISSES)

\* addLiveMarket that pushes the new entry at the end of the list
addLiveMarket_push(list, market, yesLiquidity, noLiquidity) ==
    LET liveMarket == [slug |-> market.condition_id,
                       liquidity |-> yesLiquidity + noLiquidity]
        Never(m) == FALSE
    IN  TrackSorted(list, liveMarket, Never, MAX_LIVE_MARKETS)

\* addLiveMarket, part_002:106-149
addLiveMarket(list, market, yesLiquidity, noLiquidity) ==
    LET totalLiquidity == yesLiquidity + noLiquidity
        liveMarket == [slug |-> market.condition_id, liquidity |-> totalLiquidity]
        Thinner(m) == m.liquidity < totalLiquidity
    IN  TrackSorted(list, liveMarket, Thinner, MAX_LIVE_MARKETS)

\* the books pass the checks of part_002:190-200
BooksPriced(market, yesBook, noBook) ==
    /\ market.tokens >= 2
    /\ yesBook.fetched /\ noBook.fetched
    /\ ~Falsy(yesBook.ask) /\ ~Falsy(yesBook.bid)
    /\ ~Falsy(noBook.ask) /\ ~Falsy(noBook.bid)

\* the tracking part of scanMarketForArbitrage, part_002:205-215
TrackedLive(list, market, yesBook, noBook) ==
    IF BooksPriced(market, yesBook, noBook)
    THEN addLiveMarket(list, market, yesBook.liquidity, noBook.liquidity)
    ELSE list

TrackedNearMisses(list, market, yesBook, noBook) ==
    LET combinedAsk == yesBook.ask + noBook.ask
        deviation == Abs(1000 - combinedAsk)
    IN  IF BooksPriced(market, yesBook, noBook) /\ deviation > 0 /\ deviation <= 50
        THEN addNearMiss(list, market, combinedAsk)
        ELSE list

\* the value scanMarketForArbitrage resolves to, part_002:178-290
scanMarketForArbitrage(market, yesBook, noBook, config) ==
    IF market.tokens < 2 THEN Null
    ELSE EvaluateBooks(market, yesBook, noBook, config)

\* the profit of the newest record in place of the maximum
BestOf_newest(alerts) == alerts[1].netProfitPercent

\* Math.max(...alerts.map(a => a.netProfitPercent)) of a non-empty list
BestOf(alerts) ==
    LET k == CHOOSE k \in 1..Len(alerts) :
                 \A j \in 1..Len(alerts) : NetGeq(alerts[k], alerts[j])
    IN  alerts[k].netProfitPercent

\* this.state.alerts.slice(0, 50), terminalServer.ts:659
StateAlertLimit == 50

\* GET /api/state of TerminalServer, terminalServer.ts:655-673: the first 50
\* alerts (more than the model's window holds) and the statistics, with
\* bestProfit computed from all alerts at the time of the request
TerminalApiState(state) ==
    [alerts |-> Slice0(state.alerts, StateAlertLimit),
     stats |-> [marketsScanned |-> state.stats.marketsScanned,
                activeOpps |-> state.stats.activeOpportunities,
                totalFound |-> state.stats.totalOpportunitiesFound,
                bestProfit |->
                    IF Len(state.alerts) > 0
                    THEN BestOf([k \in 1..Len(state.alerts) |->
                                    state.alerts[k].opportunity])
                    ELSE Rat(0, 1)],
     isScanning |-> state.isScanning]

\* GET /api/state of PolyClaudeServer, part_002:1675-1686
ServerApiState(server) ==
    [alerts |-> server.alerts, stats |-> server.stats, isScanning |-> server.isScanning]

\* PolyClaudeServer.addAlert, part_002:1692-1704
PolyClaudeServer_addAlert(server, opp) ==
    LET Same(a) == a.marketId = opp.marketId
        idx == FindIndex(server.alerts, Same)
        placed == IF idx # 0 THEN [server.alerts EXCEPT ![idx] = opp]
                  ELSE <<opp>> \o server.alerts
        alerts == IF Len(placed) > AlertCapacity THEN Slice0(placed, AlertCapacity)
                  ELSE placed
    IN  [server EXCEPT
            !.alerts = alerts,
            !.stats = [server.stats EXCEPT
                          !.totalFound = IF idx # 0 THEN @ ELSE @ + 1,
                          !.activeOpps = Len(alerts),
                          !.bestProfit = IF Len(alerts) > 0 THEN BestOf(alerts)
                                         ELSE Rat(0, 1)]]

\* the loop over the results of a batch, part_002:1731-1733
AddResults(server, found) ==
    LET After[k \in 0..Len(found)] ==
            IF k = 0 THEN server
            ELSE ApplyTo(After[k - 1],
                         LAMBDA before : PolyClaudeServer_addAlert(before, found[k]))
    IN  After[Len(found)]

\* fetchMarkets keeps m.active && !m.closed && m.enable_order_book, part_002:44
HasOrderBook(m) == m.flags.active /\ ~m.flags.closed /\ m.flags.enable_order_book

ServerIdle ==
    [pc |-> "idle", isScanning |-> FALSE, alerts |-> << >>,
     stats |-> [marketsScanned |-> 0, totalFound |-> 0, activeOpps |-> 0,
                bestProfit |-> Rat(0, 1), totalScans |-> 0],
     markets |-> << >>, i |-> 0, pending |-> {}, results |-> << >>,
     keysBefore |-> << >>]

\* the constructor, part_002:1654-1660, and the empty module-level lists
ServerInit ==
    /\ srv = ServerIdle
    /\ nearMisses = << >>
    /\ liveMarkets = << >>

ServerOff ==
    /\ srv = [ServerIdle EXCEPT !.pc = "off"]
    /\ nearMisses = << >>
    /\ liveMarkets = << >>

ServerKeys(alerts) == [k \in 1..Len(alerts) |-> alerts[k].marketId]

\* an exit of runScan that leaves the flag set
ServerFlagAfterScan_kept(kind) == kind = "empty"

\* this.isScanning = false, part_002:1719 and part_002:1750
ServerFlagAfterScan(kind) == FALSE

\* the locals of the invocation are gone; the observation of the cycle
ServerReturns(server, kind) ==
    /\ srv' = [server EXCEPT
                 !.pc = "idle", !.isScanning = ServerFlagAfterScan(kind),
                 !.markets = << >>, !.i = 0, !.pending = {}, !.results = << >>,
                 !.keysBefore = << >>]
    /\ svcObs' = [svcObs EXCEPT
                     !.active = @ - 1,
                     !.found = @ + Len(BatchResults(server.results, 0,
                                                    Len(server.markets))),
                     !.last = [isNull |-> FALSE, kind |-> kind, ret |-> << >>,
                               prevKind |-> IF svcObs.last.isNull THEN "none"
                                            ELSE svcObs.last.kind,
                               markets |-> server.markets,
                               evaluated |-> DOMAIN server.results,
                               opportunities |-> BatchResults(server.results, 0,
                                                              Len(server.markets)),
                               keysBefore |-> server.keysBefore]]

\* PolyClaudeServer.runScan up to its first await, part_002:1706-1713
ServerRunScan ==
    /\ srv.pc # "off"
    /\ IF SingleFlight(srv.isScanning)
       THEN /\ svcObs.req # "dropped"
            /\ svcObs' = [svcObs EXCEPT !.req = "dropped"]
            /\ UNCHANGED srv
       ELSE /\ svcObs.cycles < MaxCycles
            /\ srv' = [srv EXCEPT !.pc = "fetchMarkets", !.isScanning = TRUE,
                                  !.stats.totalScans = @ + 1,
                                  !.keysBefore = ServerKeys(srv.alerts)]
            /\ svcObs' = [svcObs EXCEPT !.req = "started", !.active = @ + 1,
                                        !.cycles = @ + 1]
    /\ UNCHANGED <<nearMisses, liveMarkets, upstream, otherThanServer>>

\* fetchMarkets settles, part_002:38-51 and part_002:1714-1723: a failed
\* fetch is an empty list
FetchMarketsDone(outcome, raw) ==
    /\ srv.pc = "fetchMarkets"
    /\ raw \in CatalogueAnswers
    /\ upstream' = IF outcome = "throws" THEN upstream
                   ELSE [upstream EXCEPT !.known = TRUE, !.markets = raw]
    /\ \E markets \in {IF outcome = "throws" THEN << >>
                         ELSE SelectSeq(raw, HasOrderBook)} :
           IF markets = << >>
           THEN ServerReturns(srv, IF outcome = "throws" THEN "threw" ELSE "empty")
           ELSE /\ srv' = [srv EXCEPT
                             !.pc = "batch",
                             !.stats.marketsScanned = Len(markets),
                             !.markets = markets,
                             !.i = 0,
                             !.pending = BatchIndices(0, Len(markets), serverBatchSize)]
                /\ UNCHANGED svcObs
    /\ UNCHANGED <<nearMisses, liveMarkets, otherThanServer>>

\* what the promise of scanMarketForArbitrage settles to, part_002:178-290:
\* the try/catch and fetchOrderBook's own catch turn every failure into null
ServerScanSettles(market, yesBook, noBook, config) ==
    [rejected |-> FALSE, value |-> scanMarketForArbitrage(market, yesBook, noBook, config)]

\* scanMarketForArbitrage of one market of the batch settles, part_002:1729
ServerScanMarketDone(k, case) ==
    /\ srv.pc = "batch"
    /\ k \in srv.pending
    /\ case \in AnswersFor(srv.markets[k].condition_id)
    /\ upstream' = [upstream EXCEPT
                      !.books = MapSet(@, srv.markets[k].condition_id, case)]
    /\ \E market \in {MarketOf(srv.markets[k].condition_id, case)} :
       \E settled \in {ServerScanSettles(market, case.yesBook, case.noBook,
                                          ServerConfig)} :
           IF settled.rejected
           THEN \* Promise.all rejects: the catch of runScan, part_002:1746-1748
                /\ ServerReturns(srv, "scan_error")
                /\ UNCHANGED <<nearMisses, liveMarkets>>
           ELSE /\ liveMarkets' = TrackedLive(liveMarkets, market, case.yesBook, case.noBook)
                /\ nearMisses' = TrackedNearMisses(nearMisses, market, case.yesBook,
                                                   case.noBook)
                /\ srv' = [srv EXCEPT
                             !.pending = @ \ {k},
                             !.results = MapSet(@, k, settled.value)]
                /\ UNCHANGED svcObs
    /\ UNCHANGED otherThanServer

\* Promise.all of the batch resolves and its results are added,
\* part_002:1729-1738
ServerBatchJoin ==
    /\ srv.pc = "batch"
    /\ AllSettled(srv.pending, BatchIndices(srv.i, Len(srv.markets), serverBatchSize))
    /\ \E found \in {BatchResults(srv.results, srv.i, Len(srv.markets))} :
       \E added \in {AddResults(srv, found)} :
           IF srv.i + serverBatchSize < Len(srv.markets)
           THEN /\ srv' = [added EXCEPT !.pc = "delay"]
                /\ UNCHANGED svcObs
           ELSE ServerReturns(added, "done")
    /\ UNCHANGED <<nearMisses, liveMarkets, upstream, otherThanServer>>

\* the 150 ms pause ends, part_002:1735-1737, and the loop test of
\* part_002:1727 is made for the next batch
ServerDelayDone ==
    /\ srv.pc = "delay"
    /\ LET next == srv.i + serverBatchSize
           n == Len(srv.markets)
       IN  IF next < Min(n, ScanLimit)
           THEN /\ srv' = [srv EXCEPT !.pc = "batch", !.i = next,
                                      !.pending = BatchIndices(next, n, serverBatchSize)]
                /\ UNCHANGED svcObs
           ELSE ServerReturns(srv, "done")
    /\ UNCHANGED <<nearMisses, liveMarkets, upstream, otherThanServer>>

ServerStep ==
    \/ \E outcome \in {"throws", "markets"}, raw \in CatalogueAnswers :
           FetchMarketsDone(outcome, raw)
    \/ \E k \in srv.pending : \E case \in ScanCases : ServerScanMarketDone(k, case)
    \/ ServerBatchJoin
    \/ ServerDelayDone

ServerNext ==
    \/ ServerRunScan
    \/ ServerStep

(***************************************************************************)
(* scanIntraMarketArbAction.handler, scanIntraMarketArb.ts:273-413.  The   *)
(* handler keeps no state between invocations; act holds the locals of the *)
(* invocation and what it handed to the callback and to its caller.        *)
(***************************************************************************)
\* batchSize of the handler (10 in scanIntraMarketArb.ts:312), scaled like
\* batchSize
handlerBatchSize == 2

NoContent == [kind |-> "none", marketsScanned |-> 0, opportunities |-> << >>]

HandlerIdle ==
    [pc |-> "idle", calls |-> 0, activeMarkets |-> << >>, i |-> 0,
     opportunities |-> << >>, callback |-> NoContent, outcome |-> "none",
     content |-> NoContent, catalogueFailed |-> FALSE]

HandlerInit == act = HandlerIdle
HandlerOff == act = [HandlerIdle EXCEPT !.pc = "off"]

\* the handler is invoked, scanIntraMarketArb.ts:273-289
HandlerCall ==
    /\ act.pc = "idle"
    /\ act.calls < MaxCycles
    /\ act' = [HandlerIdle EXCEPT !.pc = "getMarkets", !.calls = act.calls + 1]
    /\ UNCHANGED <<upstream, svcObs, otherThanHandler>>

\* the catch of the handler, scanIntraMarketArb.ts:399-412: the error
\* content goes to the callback and the error is thrown again
HandlerCatch ==
    [pc |-> "idle", outcome |-> "threw",
     callback |-> [kind |-> "error", marketsScanned |-> 0, opportunities |-> << >>],
     content |-> NoContent]

\* the content built from the opportunities, its callback and the return,
\* scanIntraMarketArb.ts:327-398
HandlerReturns(activeMarkets, found) ==
    LET opportunities == SortByNetDesc(found)
        content == [kind |-> IF opportunities = << >> THEN "no_opportunities"
                             ELSE "opportunities",
                    marketsScanned |-> Len(activeMarkets),
                    opportunities |-> opportunities]
    IN  act' = [act EXCEPT !.pc = "idle", !.outcome = "returned",
                           !.callback = content, !.content = content,
                           !.activeMarkets = activeMarkets,
                           !.opportunities = opportunities]

\* initializeClobClient and getMarkets settle, scanIntraMarketArb.ts:291-307
HandlerGetMarketsDone(outcome, markets) ==
    /\ act.pc = "getMarkets"
    /\ markets \in CatalogueAnswers
    /\ CASE outcome = "throws" ->
              /\ act' = [act EXCEPT !.pc = HandlerCatch.pc,
                                     !.outcome = HandlerCatch.outcome,
                                     !.callback = HandlerCatch.callback,
                                     !.content = HandlerCatch.content,
                                     !.catalogueFailed = TRUE]
              /\ UNCHANGED upstream
         [] outcome = "markets" /\ markets = << >> ->
              /\ act' = [act EXCEPT
                           !.pc = "idle", !.outcome = "returned",
                           !.callback = [kind |-> "no_markets", marketsScanned |-> 0,
                                         opportunities |-> << >>],
                           !.content = [kind |-> "no_markets", marketsScanned |-> 0,
                                        opportunities |-> << >>]]
              /\ upstream' = [upstream EXCEPT !.known = TRUE, !.markets = markets]
         [] outcome = "markets" /\ markets # << >> ->
              /\ upstream' = [upstream EXCEPT !.known = TRUE, !.markets = markets]
              /\ LET activeMarkets == ActiveMarkets(markets)
                 IN  IF activeMarkets = << >>
                     THEN HandlerReturns(activeMarkets, << >>)
                     ELSE act' = [act EXCEPT !.pc = "batch",
                                             !.activeMarkets = activeMarkets, !.i = 0]
    /\ UNCHANGED <<svcObs, otherThanHandler>>

\* the answers of the upstream for the markets of one batch
BatchAnswers(ids) ==
    {books \in [ids -> ScanCases] : \A id \in ids : books[id] \in AnswersFor(id)}

\* the markets of the batch in progress
HandlerBatchIds ==
    {act.activeMarkets[k].condition_id :
        k \in BatchIndices(act.i, Len(act.activeMarkets), handlerBatchSize)}

\* Promise.all of one batch resolves, scanIntraMarketArb.ts:314-319.  The
\* calls of a batch share no state, so the batch is one step.
HandlerBatchDone(books) ==
    /\ act.pc = "batch"
    /\ LET n == Len(act.activeMarkets)
           batch == BatchIndices(act.i, n, handlerBatchSize)
           results == [k \in batch |->
                          LET id == act.activeMarkets[k].condition_id
                          IN  scanMarket(MarketOf(id, books[id]), books[id].yesBook,
                                         books[id].noBook, DEFAULT_CONFIG)]
           opportunities == act.opportunities \o BatchResults(results, act.i, n)
       IN  /\ books \in BatchAnswers(HandlerBatchIds)
           /\ upstream' = [upstream EXCEPT
                             !.books = [id \in DOMAIN books \cup DOMAIN upstream.books |->
                                           IF id \in DOMAIN books THEN books[id]
                                           ELSE upstream.books[id]]]
           /\ IF act.i + handlerBatchSize < n
              THEN act' = [act EXCEPT !.pc = "delay", !.opportunities = opportunities]
              ELSE HandlerReturns(act.activeMarkets, opportunities)
    /\ UNCHANGED <<svcObs, otherThanHandler>>

\* the 100 ms pause between batches ends, scanIntraMarketArb.ts:321-324
HandlerDelayDone ==
    /\ act.pc = "delay"
    /\ act' = [act EXCEPT !.pc = "batch", !.i = @ + handlerBatchSize]
    /\ UNCHANGED <<upstream, svcObs, otherThanHandler>>

HandlerNext ==
    \/ HandlerCall
    \/ \E outcome \in {"throws", "markets"}, markets \in CatalogueAnswers :
           HandlerGetMarketsDone(outcome, markets)
    \/ \E books \in BatchAnswers(HandlerBatchIds) : HandlerBatchDone(books)
    \/ HandlerDelayDone

(***************************************************************************)
(* addNearMiss, addLiveMarket and scanMarketForArbitrage of part_002       *)
(* called on their own, on lists that earlier calls have filled.           *)
(***************************************************************************)
\* how many markets beyond the capacity of a list are offered to it
NumNewSlugs == 2

\* the list after addNearMiss was called for the markets 1..n, closest
\* first: deviations 0.002, 0.002, 0.004, 0.004, ...
SeedNearMisses(n) ==
    [k \in 1..n |-> [slug |-> k, deviation |-> 2 * ((k + 1) \div 2),
                     direction |-> "UNDERPRICED"]]

\* the list after addLiveMarket was called for the markets 1..n, deepest
\* first: liquidities 800, 700, 700, 600, 600, ...
SeedLiveMarkets(n) ==
    [k \in 1..n |-> [slug |-> k,
                     liquidity |-> 100 * ((MAX_LIVE_MARKETS + 2 - k) \div 2)]]

\* lengths of the list a sequence of calls starts from: empty, one below
\* the capacity, full
SeedLengths(capacity) == {0, capacity - 1, capacity}

\* the markets of the calls: the first and the last of a full list, and
\* markets the list has not seen
TrackSlugs(capacity) == {1, capacity} \cup (capacity + 1 .. capacity + NumNewSlugs)

\* combinedAsk of the calls of addNearMiss: deviations 0.001, 0.004, 0.004
\* (from above), 0.05
NearMissAsks == {999, 996, 1004, 1050}

\* yesLiquidity and noLiquidity of the calls of addLiveMarket: totals 0,
\* 650, 700, 1350
YesLiquidities == {0, 650}
NoLiquidities == {0, 700}

\* the markets of the calls of scanMarketForArbitrage: the last of a full
\* list and one the list has not seen
ScanSlugs == {MAX_LIVE_MARKETS, MAX_LIVE_MARKETS + 1}

TrackMarket(slug, case) == MarketOf(slug, case)

\* latest: the total liquidity of the last addLiveMarket call of every
\* market that was ever offered to liveMarkets
NoTrack == [pc |-> "off", op |-> "none", slug |-> 0, rank |-> 0, present |-> FALSE,
            length |-> 0, analyzable |-> FALSE, accepted |-> FALSE, latest |-> << >>]

SeedLatest(n) == [k \in 1..n |-> SeedLiveMarkets(n)[k].liquidity]

TrackIdle == track = NoTrack


\* the lists before the first call
TrackInit ==
    \/ /\ track = [NoTrack EXCEPT !.pc = "addNearMiss"]
       /\ \E n \in SeedLengths(MAX_NEAR_MISSES) : nearMisses = SeedNearMisses(n)
       /\ liveMarkets = << >>
    \/ /\ \E n \in SeedLengths(MAX_LIVE_MARKETS) :
              /\ liveMarkets = SeedLiveMarkets(n)
              /\ track = [NoTrack EXCEPT !.pc = "addLiveMarket", !.latest = SeedLatest(n)]
       /\ nearMisses = << >>
    \/ /\ \E n \in SeedLengths(MAX_LIVE_MARKETS) :
              /\ liveMarkets = SeedLiveMarkets(n)
              /\ track = [NoTrack EXCEPT !.pc = "scanMarketForArbitrage",
                                         !.latest = SeedLatest(n)]
       /\ nearMisses = << >>

Slugs(list) == {list[k].slug : k \in 1..Len(list)}

\* one call of addNearMiss, part_002:65-104
AddNearMissCall(slug, combinedAsk) ==
    /\ track.pc = "addNearMiss"
    /\ nearMisses' = addNearMiss(nearMisses, [condition_id |-> slug], combinedAsk)
    /\ track' = [track EXCEPT !.op = "addNearMiss", !.slug = slug,
                              !.rank = Abs(1000 - combinedAsk),
                              !.present = slug \in Slugs(nearMisses),
                              !.length = Len(nearMisses)]
    /\ UNCHANGED liveMarkets
    /\ UNCHANGED otherThanTrack

\* one call of addLiveMarket, part_002:106-149
AddLiveMarketCall(slug, yesLiquidity, noLiquidity) ==
    /\ track.pc = "addLiveMarket"
    /\ liveMarkets' = addLiveMarket(liveMarkets, [condition_id |-> slug],
                                    yesLiquidity, noLiquidity)
    /\ track' = [track EXCEPT !.op = "addLiveMarket", !.slug = slug,
                              !.rank = yesLiquidity + noLiquidity,
                              !.present = slug \in Slugs(liveMarkets),
                              !.length = Len(liveMarkets),
                              !.latest = MapSet(@, slug, yesLiquidity + noLiquidity)]
    /\ UNCHANGED nearMisses
    /\ UNCHANGED otherThanTrack

\* one call of scanMarketForArbitrage, part_002:178-290, with the answers
\* of the upstream for the market
ScanMarketForArbitrageCall(slug, case) ==
    /\ track.pc = "scanMarketForArbitrage"
    /\ \E market \in {TrackMarket(slug, case)} :
       \E opp \in {scanMarketForArbitrage(market, case.yesBook, case.noBook,
                                           ServerConfig)} :
           /\ liveMarkets' = TrackedLive(liveMarkets, market, case.yesBook, case.noBook)
           /\ nearMisses' = TrackedNearMisses(nearMisses, market, case.yesBook,
                                              case.noBook)
           /\ track' = [track EXCEPT
                           !.op = "scanMarketForArbitrage", !.slug = slug,
                           !.rank = case.yesBook.liquidity + case.noBook.liquidity,
                           !.present = slug \in Slugs(liveMarkets),
                           !.length = Len(liveMarkets),
                           !.analyzable = BooksPriced(market, case.yesBook, case.noBook),
                           !.accepted = opp # Null,
                           !.latest = IF BooksPriced(market, case.yesBook, case.noBook)
                                      THEN MapSet(@, slug, case.yesBook.liquidity
                                                            + case.noBook.liquidity)
                                      ELSE @]
    /\ UNCHANGED otherThanTrack

TrackNext ==
    \/ \E slug \in TrackSlugs(MAX_NEAR_MISSES), combinedAsk \in NearMissAsks :
           AddNearMissCall(slug, combinedAsk)
    \/ \E slug \in TrackSlugs(MAX_LIVE_MARKETS), yesLiquidity \in YesLiquidities,
          noLiquidity \in NoLiquidities :
           AddLiveMarketCall(slug, yesLiquidity, noLiquidity)
    \/ \E slug \in ScanSlugs, case \in ScanCases :
           ScanMarketForArbitrageCall(slug, case)

(***************************************************************************)
(* calculateRiskScore called on its own (part_000:42-81,                   *)
(* scanIntraMarketArb.ts:42-85, part_002:160-176: the same code).          *)
(***************************************************************************)
\* arguments on both sides of every threshold: profit 0.99 %, 1 %, 5 %;
\* liquidity; the two spreads added, in mills (average 0.02, 0.0205, 0.05,
\* 0.0505); the time to expiry in hours (-1 day, 0, 23 h, 1 day, 167 h, 7
\* days)
RiskProfits == {Rat(99, 100), Rat(1, 1), Rat(5, 1)}
RiskLiquidities == {499, 500, 999, 1000}
RiskSpreads == {40, 41, 100, 101}
RiskHours == {0 - 24, 0, 23, 24, 167, 168}

RiskInputs ==
    [profitPercent : RiskProfits, liquidity : RiskLiquidities, spread : RiskSpreads,
     hoursToExpiry : RiskHours]

NoRiskInput == [profitPercent |-> Rat(0, 1), liquidity |-> 0, spread |-> 0,
                hoursToExpiry |-> 0]

NoRiskCall == [pc |-> "off", calls |-> 0, input |-> NoRiskInput, out |-> Null,
               prevInput |-> NoRiskInput, prevOut |-> Null]

RiskIdle == riskCall = NoRiskCall

RiskInit == riskCall = [NoRiskCall EXCEPT !.pc = "ready"]

\* the arguments of a call: any at first, and then the arguments of the
\* call before with at most one of them changed
ChangedArguments(a, b) ==
    {f \in {"profitPercent", "liquidity", "spread", "hoursToExpiry"} : a[f] # b[f]}

NextRiskInputs ==
    IF riskCall.calls = 0 THEN RiskInputs
    ELSE {input \in RiskInputs : Cardinality(ChangedArguments(riskCall.input, input)) <= 1}

\* one call of calculateRiskScore
CalculateRiskScoreCall(input) ==
    /\ riskCall.pc = "ready"
    /\ riskCall' = [pc |-> "ready",
                    calls |-> Min(riskCall.calls + 1, 2),
                    input |-> input,
                    out |-> calculateRiskScore(input.profitPercent, input.liquidity,
                                               input.spread, input.hoursToExpiry),
                    prevInput |-> riskCall.input,
                    prevOut |-> riskCall.out]
    /\ UNCHANGED otherThanRisk

RiskNext == \E input \in NextRiskInputs : CalculateRiskScoreCall(input)

(***************************************************************************)
(* analyzeMarket of the serverless scanner, api/scan.js:29-106.  Its       *)
(* thresholds lie at 0.001, so that prices and absolute profits are in     *)
(* units of 0.0001 here: 1.00 is 10000 and 0.001 is 10.                    *)
(***************************************************************************)
analyzeMarket(market, yesBook, noBook) ==
    IF market.tokens < 2 THEN Null
    ELSE IF ~yesBook.fetched \/ ~noBook.fetched THEN Null
    ELSE
    LET yesBestAsk == yesBook.ask
        yesBestBid == yesBook.bid
        noBestAsk == noBook.ask
        noBestBid == noBook.bid
    IN
    IF Falsy(yesBestAsk) \/ Falsy(yesBestBid) \/ Falsy(noBestAsk) \/ Falsy(noBestBid)
    THEN Null
    ELSE
    LET combinedAsk == yesBestAsk + noBestAsk
        combinedBid == yesBestBid + noBestBid
        buyBothProfit == 10000 - combinedAsk
        sellBothProfit == combinedBid - 10000
        arbitrage ==
            IF buyBothProfit > 10
            THEN [isNull |-> FALSE, type |-> "BUY_BOTH",
                  profitPercent |-> Rat(buyBothProfit * 100, combinedAsk),
                  profitAbsolute |-> buyBothProfit]
            ELSE IF sellBothProfit > 10
            THEN [isNull |-> FALSE, type |-> "SELL_BOTH",
                  profitPercent |-> Rat(sellBothProfit * 100, 10000),
                  profitAbsolute |-> sellBothProfit]
            ELSE Null
        deviation == Abs(10000 - combinedAsk)
    IN  [isNull |-> FALSE,
         slug |-> market.condition_id,
         combinedAsk |-> combinedAsk,
         combinedBid |-> combinedBid,
         liquidity |-> yesBook.liquidity + noBook.liquidity,
         deviation |-> deviation,
         direction |-> IF combinedAsk < 10000 THEN "UNDERPRICED" ELSE "OVERPRICED",
         isNearMiss |-> deviation > 0 /\ deviation <= 500 /\ arbitrage = Null,
         arbitrage |-> arbitrage]

\* the books of a call: asks 0.40, 0.4995, 0.50 and bids 0.39, 0.499, 0.5105,
\* 0.61 of the YES token; asks 0.50, 0.55, 0.65 and bids 0.49, 0.59 of the NO
\* token
AnalyzeYesBooks ==
    {FailedBook} \cup
    [fetched : {TRUE}, ask : {NoPrice, 4000, 4995, 5000}, bid : {3900, 4990, 5105, 6100},
     liquidity : {1000}]
AnalyzeNoBooks ==
    {FailedBook} \cup
    [fetched : {TRUE}, ask : {5000, 5500, 6500}, bid : {NoPrice, 4900, 5900},
     liquidity : {1000}]
AnalyzeMarkets == [condition_id : {1}, tokens : {1, 2}, hoursToExpiry : {720}]

NoAnalysis == [pc |-> "off", market |-> Null, yesBook |-> FailedBook,
               noBook |-> FailedBook, out |-> Null]

AnalyzeIdle == an = NoAnalysis

AnalyzeInit ==
    \E market \in AnalyzeMarkets, yesBook \in AnalyzeYesBooks, noBook \in AnalyzeNoBooks :
        an = [pc |-> "ready", market |-> market, yesBook |-> yesBook, noBook |-> noBook,
              out |-> Null]

\* one call of analyzeMarket
AnalyzeMarketCall ==
    /\ an.pc = "ready"
    /\ an' = [an EXCEPT !.pc = "done",
                        !.out = analyzeMarket(an.market, an.yesBook, an.noBook)]
    /\ UNCHANGED otherThanAnalyze

AnalyzeNext == AnalyzeMarketCall

(***************************************************************************)
(* PolyClaudeService.updateConfig (part_000:424-427) and the markets a     *)
(* scan under the resulting config evaluates and accepts                   *)
(* (part_000:216-244).  ScannerConfig (plugin.ts:380-387) declares the     *)
(* optional includeCategories and excludeCategories; a config is a         *)
(* function on the keys it holds.                                          *)
(***************************************************************************)
\* updateConfig calls per behaviour
MaxConfigUpdates == 2

Categories == {"politics", "sports"}

\* Partial<ScannerConfig> arguments of updateConfig
NewConfigs ==
    {[k \in keys |-> IF k = "includeCategories" THEN inc ELSE exc] :
        keys \in (SUBSET {"includeCategories", "excludeCategories"}) \ {{}},
        inc \in {{"politics"}, {"sports"}},
        exc \in {{"politics"}}}

\* this.config = { ...this.config, ...newConfig }, part_000:425
updateConfig(config, newConfig) ==
    [k \in DOMAIN config \cup DOMAIN newConfig |->
        IF k \in DOMAIN newConfig THEN newConfig[k] ELSE config[k]]

\* a catalogue entry with its category and what the upstream answers for it
ConfigMarket(id, category, case) ==
    [condition_id |-> id, category |-> category, flags |-> Open, case |-> case]

ConfigCatalogues ==
    {<<ConfigMarket(1, c1, case1), ConfigMarket(2, c2, case2)>> :
        c1 \in Categories, c2 \in Categories,
        case1 \in {CaseHighProfit, CaseNoArbitrage},
        case2 \in {CaseHighProfit, CaseLowProfit}}

\* runScan from the catalogue to the sorted opportunities, part_000:216-244:
\* the active markets are the markets with active && !closed, every one of
\* them is handed to scanMarket, and the non-null results are sorted
ScanUnderConfig(config, markets) ==
    LET activeMarkets == ActiveMarkets(markets)
        results == [k \in 1..Len(activeMarkets) |->
                       scanMarket(MarketOf(activeMarkets[k].condition_id,
                                           activeMarkets[k].case),
                                  activeMarkets[k].case.yesBook,
                                  activeMarkets[k].case.noBook, config)]
    IN  SortByNetDesc(SelectSeq(results, IsOpportunity))

NoConfigScan ==
    [pc |-> "off", config |-> DEFAULT_CONFIG, updates |-> 0, markets |-> << >>,
     opportunities |-> << >>]

ConfigIdle == cfg = NoConfigScan

\* the constructor, part_000:102: this.config = { ...DEFAULT_CONFIG }
ConfigInit ==
    \E markets \in ConfigCatalogues :
        cfg = [NoConfigScan EXCEPT !.pc = "ready", !.markets = markets]

\* one call of updateConfig
UpdateConfigCall(newConfig) ==
    /\ cfg.pc = "ready"
    /\ cfg.updates < MaxConfigUpdates
    /\ cfg' = [cfg EXCEPT !.config = updateConfig(cfg.config, newConfig),
                          !.updates = @ + 1]
    /\ UNCHANGED otherThanConfig

\* one scan under the config
ConfigScanCall ==
    /\ cfg.pc = "ready"
    /\ cfg' = [cfg EXCEPT !.pc = "done",
                          !.opportunities = ScanUnderConfig(cfg.config, cfg.markets)]
    /\ UNCHANGED otherThanConfig

ConfigNext ==
    \/ \E newConfig \in NewConfigs : UpdateConfigCall(newConfig)
    \/ ConfigScanCall

(***************************************************************************)
(* The two addAlert functions called on their own: TerminalServer.addAlert *)
(* (terminalServer.ts:736-767) and PolyClaudeServer.addAlert               *)
(* (part_002:1692-1704), on windows that earlier calls have filled up to   *)
(* or one below the capacity.                                              *)
(***************************************************************************)
\* inserts a behaviour makes beyond a full window
MaxWindowInserts == 2

\* one market more than the window holds
WindowMarkets == 1..(AlertCapacity + 1)

\* the opportunity scanMarketForArbitrage returns for a market with the books
\* of a case
WindowOpportunity(id, case) ==
    scanMarketForArbitrage(MarketOf(id, case), case.yesBook, case.noBook, ServerConfig)

WindowOpportunities ==
    {WindowOpportunity(id, case) :
        id \in WindowMarkets, case \in {CaseLowProfit, CaseHighProfit}}

\* the window after addAlert for the markets 1..n in this order
SeedOpportunities(n) == [k \in 1..n |-> WindowOpportunity(n + 1 - k, CaseHighProfit)]

SeedTerminal(n) ==
    [alerts |-> [k \in 1..n |-> [opportunity |-> SeedOpportunities(n)[k],
                                 priority |-> Priority(SeedOpportunities(n)[k])]],
     stats |-> [InitialStats EXCEPT !.totalOpportunitiesFound = n,
                                    !.activeOpportunities = n],
     isScanning |-> FALSE]

SeedServer(n) ==
    [ServerIdle EXCEPT
        !.pc = "off",
        !.alerts = SeedOpportunities(n),
        !.stats = [@ EXCEPT !.totalFound = n, !.activeOpps = n,
                            !.bestProfit = IF n = 0 THEN Rat(0, 1)
                                           ELSE BestOf(SeedOpportunities(n))]]

\* one of the two windows per behaviour
WindowInit ==
    \E n \in {0, AlertCapacity - 1, AlertCapacity} :
        \/ term = SeedTerminal(n) /\ srv = SeedServer(0)
        \/ term = SeedTerminal(0) /\ srv = SeedServer(n)

\* one call of TerminalServer.addAlert
TerminalAddAlertCall(opp) ==
    /\ srv.alerts = << >>
    /\ term.stats.totalOpportunitiesFound < AlertCapacity + MaxWindowInserts
    /\ term' = addAlert(term, opp)
    /\ UNCHANGED <<isScanning, stats, hasTelegram, scan, svcObs, upstream, serverVars,
                   otherThanService>>

\* one call of PolyClaudeServer.addAlert
ServerAddAlertCall(opp) ==
    /\ term.alerts = << >>
    /\ srv.stats.totalFound < AlertCapacity + MaxWindowInserts
    /\ srv' = PolyClaudeServer_addAlert(srv, opp)
    /\ UNCHANGED <<nearMisses, liveMarkets, upstream, svcObs, otherThanServer>>

WindowNext ==
    \/ \E opp \in WindowOpportunities : TerminalAddAlertCall(opp)
    \/ \E opp \in WindowOpportunities : ServerAddAlertCall(opp)

(***************************************************************************)
(* TelegramBotService.clearCooldown and clearAllCooldowns                  *)
(* (telegramBot.ts:245-254), and a second instance of the class: its       *)
(* lastAlertTime is a field initialised per instance (telegramBot.ts:103). *)
(* tgAux.other is the map of the second instance; tgAux.op, tgAux.m and    *)
(* tgAux.before record the last clear call on the first instance and the   *)
(* stamps it removed.                                                      *)
(***************************************************************************)
\* clearCooldown that empties the map
clearCooldown_all(map, marketId) == << >>

\* this.lastAlertTime.delete(marketId), telegramBot.ts:245-247
clearCooldown(map, marketId) == [k \in (DOMAIN map) \ {marketId} |-> map[k]]

\* this.lastAlertTime.clear(), telegramBot.ts:252-254
clearAllCooldowns(map) == << >>

\* clear calls on the first instance, and calls on the second, per behaviour
MaxClears == 1
MaxOtherCalls == 1

NoAux == [other |-> << >>, op |-> "none", m |-> 0, before |-> << >>, clears |-> 0,
          calls |-> 0]

AuxIdle == tgAux = NoAux

\* one call of clearCooldown on the first instance, at any time, also while
\* a send is awaited
ClearCooldownCall(m) ==
    /\ tgAux.clears < MaxClears
    /\ lastAlertTime' = clearCooldown(lastAlertTime, m)
    /\ tgAux' = [tgAux EXCEPT !.op = "clearCooldown", !.m = m,
                              !.before = [k \in {m} \cap DOMAIN lastAlertTime |->
                                             lastAlertTime[k]],
                              !.clears = @ + 1]
    /\ UNCHANGED <<now, tgEnabled, tgPc, tgCall>>
    /\ UNCHANGED otherThanClear

\* one call of clearAllCooldowns on the first instance
ClearAllCooldownsCall ==
    /\ tgAux.clears < MaxClears
    /\ lastAlertTime' = clearAllCooldowns(lastAlertTime)
    /\ tgAux' = [tgAux EXCEPT !.op = "clearAllCooldowns", !.m = 0,
                              !.before = lastAlertTime, !.clears = @ + 1]
    /\ UNCHANGED <<now, tgEnabled, tgPc, tgCall>>
    /\ UNCHANGED otherThanClear

\* one whole sendArbitrageAlert call of the second instance, telegramBot.ts:
\* 166-187, with the outcomes of its two possible sends
OtherSendArbitrageAlert(m, first, second) ==
    /\ tgAux.calls < MaxOtherCalls
    /\ LET success == sendMessage(tgEnabled, first) \/ sendMessage(tgEnabled, second)
       IN  tgAux' = [tgAux EXCEPT
                        !.other = IF shouldSendAlert(tgAux.other, m, now)
                                  THEN StampAfterSend(tgAux.other, m, success, now)
                                  ELSE tgAux.other,
                        !.calls = @ + 1]
    /\ UNCHANGED gateVars
    /\ UNCHANGED otherThanClear

\* one call of clearCooldown on the second instance
OtherClearCooldownCall(m) ==
    /\ tgAux.calls < MaxOtherCalls
    /\ tgAux' = [tgAux EXCEPT !.other = clearCooldown(tgAux.other, m), !.calls = @ + 1]
    /\ UNCHANGED gateVars
    /\ UNCHANGED otherThanClear

ClearNext ==
    \/ GateNext
    \/ \E m \in Markets : ClearCooldownCall(m)
    \/ ClearAllCooldownsCall
    \/ \E m \in Markets, first \in SendOutcomes, second \in SendOutcomes :
           OtherSendArbitrageAlert(m, first, second)
    \/ \E m \in Markets : OtherClearCooldownCall(m)

(***************************************************************************)
(* PolyClaudeService.runScan with the gate it owns: the loop of            *)
(* part_000:260-265 calls sendArbitrageAlert of telegramBot.ts:166-187.    *)
(* The catalogue holds up to one open market more than a cycle may alert   *)
(* for; the books of every market are profitable, or those of the last     *)
(* market yield a net profit below 1 %.  scan.pending = {1} while the       *)
(* awaited call has not returned to the loop.                              *)
(***************************************************************************)
AlertsCatalogues ==
    {[k \in 1..n |-> [condition_id |-> ((k - 1) % NumMarkets) + 1, flags |-> Open]] :
        n \in 1..(MaxAlertsPerScan + 1)}

AlertsBooks ==
    {[id \in Markets |-> CaseHighProfit],
     [id \in Markets |-> IF id = NumMarkets THEN CaseLowProfit ELSE CaseHighProfit]}

AlertsUpstream ==
    upstream \in {[known |-> TRUE, markets |-> catalogue, books |-> books] :
                     catalogue \in AlertsCatalogues, books \in AlertsBooks}

\* a loop that goes on without waiting for the call
AlertAwaited_not(pc) == TRUE

\* await this.telegramBot.sendArbitrageAlert(opp), part_000:263: the loop
\* resumes when the call has returned
AlertAwaited(pc) == pc = "idle"

\* the loop calls sendArbitrageAlert(opp), part_000:263: the cooldown check
\* and the first send happen before the call yields
AlertCall ==
    /\ scan.pc = "alerting"
    /\ scan.pending = {}
    /\ SendArbitrageAlertCheck(Head(scan.queue).marketId)
    /\ scan' = [scan EXCEPT !.pending = {1}]
    /\ UNCHANGED <<now, lastAlertTime, tgEnabled>>
    /\ UNCHANGED <<isScanning, stats, hasTelegram, term, svcObs, upstream>>
    /\ UNCHANGED <<builderVars, serverVars, act, unitVars>>

\* the awaited call has returned: the next opportunity of the loop, or the
\* end of runScan, part_000:262-268
AlertSettled ==
    /\ scan.pc = "alerting"
    /\ scan.pending = {1}
    /\ AlertAwaited(tgPc)
    /\ IF Len(scan.queue) = 1
       THEN /\ term' = setScanning(term, FlagAfterScan("done"))
            /\ ReturnFromScan("done", scan.opportunities, scan.opportunities)
       ELSE /\ scan' = [scan EXCEPT !.queue = Tail(@), !.pending = {}]
            /\ UNCHANGED <<isScanning, term, svcObs>>
    /\ UNCHANGED <<stats, hasTelegram, upstream, otherThanService>>

AlertsNext ==
    \/ Tick
    \/ RunScan
    \/ \E outcome \in {"throws", "markets"}, markets \in CatalogueAnswers :
           GetMarketsDone(outcome, markets)
    \/ \E k \in scan.pending : \E case \in ScanCases : ScanMarketDone(k, case)
    \/ BatchJoin
    \/ DelayDone
    \/ AlertCall
    \/ \E o \in SendOutcomes : SendMarkdownDone(o)
    \/ \E o \in SendOutcomes : SendPlainDone(o)
    \/ AlertSettled

(***************************************************************************)
(* PolyClaudeService.startAutoScan and stopAutoScan, part_000:171-197.     *)
(* auto.scanInterval is the field scanInterval (0 for null, else the       *)
(* identifier setInterval returned); auto.live are the interval timers     *)
(* that have been set and not cleared; auto.created counts setInterval     *)
(* calls.                                                                  *)
(***************************************************************************)
\* setInterval calls per behaviour
MaxTimers == 2

\* startAutoScan without its test
TimerActive_never(scanInterval) == FALSE

\* if (this.scanInterval), part_000:172 and 193
TimerActive(scanInterval) == scanInterval # 0

NoTimer == [scanInterval |-> 0, live |-> {}, created |-> 0]

AutoIdle == auto = NoTimer
AutoInit == auto = NoTimer

\* startAutoScan, part_000:171-186: nothing when a timer is held; else the
\* initial runScan up to its first await, then setInterval
StartAutoScan ==
    /\ scan.pc # "off"
    /\ IF TimerActive(auto.scanInterval)
       THEN UNCHANGED <<auto, isScanning, stats, term, scan, svcObs>>
       ELSE /\ auto.created < MaxTimers
            /\ RunScanEnter
            /\ auto' = [scanInterval |-> auto.created + 1,
                        live |-> auto.live \cup {auto.created + 1},
                        created |-> auto.created + 1]
    /\ UNCHANGED <<hasTelegram, otherThanAuto>>

\* stopAutoScan, part_000:192-197, also called by stop, part_000:160-166
StopAutoScan ==
    /\ scan.pc # "off"
    /\ IF TimerActive(auto.scanInterval)
       THEN auto' = [auto EXCEPT !.live = @ \ {auto.scanInterval}, !.scanInterval = 0]
       ELSE UNCHANGED auto
    /\ UNCHANGED <<serviceVars, otherThanAuto>>

\* an interval timer fires: the callback calls runScan, part_000:183-185
TimerFires(id) ==
    /\ id \in auto.live
    /\ SingleFlight(isScanning) => svcObs.req # "dropped"
    /\ RunScanEnter
    /\ UNCHANGED <<auto, hasTelegram, otherThanAuto>>

AutoNext ==
    \/ StartAutoScan
    \/ StopAutoScan
    \/ \E id \in 1..MaxTimers : TimerFires(id)
    \/ RunScan
    \/ ServiceStep

(***************************************************************************)
(* Properties of the scan entry points                                     *)
(***************************************************************************)
Last == svcObs.last
CycleEnded == svcObs.active = 0 /\ ~Last.isNull
ServiceRuns == scan.pc # "off"
ServerRuns == srv.pc # "off"

\* the market keys of the opportunity set exposed to consumers
ExposedKeys == IF ServerRuns THEN ServerKeys(srv.alerts) ELSE AlertKeys(term.alerts)

\* a request was dropped by this step
Dropped == svcObs.req # "dropped" /\ svcObs'.req = "dropped"

\* C1: single-flight.  On one scanner at most one scan cycle is in progress;
\* a runScan request that arrives while the scanning flag is set returns at
\* once: it starts no cycle and no fetch, and it leaves the statistics, the
\* opportunity set, the scanning flag and the locals of the running cycle
\* as they were; and no cycle starts while the flag is set.
C1_SingleFlight ==
    /\ [](svcObs.active <= 1)
    /\ [][Dropped =>
            /\ isScanning \/ srv.isScanning
            /\ svcObs'.active = svcObs.active /\ svcObs'.cycles = svcObs.cycles
            /\ UNCHANGED <<isScanning, stats, term, scan, serverVars, upstream>>]_vars
    /\ [][(isScanning \/ srv.isScanning) => svcObs'.cycles = svcObs.cycles]_vars

\* a request was dropped while a batch of the service was being fetched
C1_Witness ==
    /\ svcObs.req = "dropped"
    /\ isScanning /\ scan.pc = "batch" /\ scan.results # << >>
    /\ svcObs.active = 1

NoDuplicates(keys) ==
    \A a, b \in 1..Len(keys) : a # b => keys[a] # keys[b]

\* C5: dedup by market key.  After any sequence of scan cycles the
\* opportunity set exposed to consumers never holds two records of the same
\* market.
C5_NoDuplicateKeys ==
    /\ NoDuplicates(AlertKeys(term.alerts))
    /\ NoDuplicates(ServerKeys(srv.alerts))

\* the same, for the standalone server alone
C5_ServerNoDuplicateKeys == NoDuplicates(ServerKeys(srv.alerts))

\* C6: idempotence of scanning.  When two cycles in succession both ran to
\* the end against the same upstream answers, the opportunity set after the
\* second has the membership and the order it had after the first.
C6_Idempotent ==
    (CycleEnded /\ Last.kind = "done" /\ Last.prevKind = "done")
        => ExposedKeys = Last.keysBefore

\* the same, for the standalone server alone
C6_ServerIdempotent == ServerRuns => C6_Idempotent

\* the upstream's answer for the k-th market of the last cycle yields an
\* opportunity under the configurations of part_000:22-27 and part_002:1659
Yields(k) ==
    upstream.books[Last.markets[k].condition_id] \in {CaseLowProfit, CaseHighProfit}

\* C8: per-market failure isolation.  Once the catalogue has been fetched,
\* the cycle runs to its end whatever the markets answer: every market of
\* every batch is evaluated, and the opportunities found are exactly those
\* of the markets whose books yield one.
C8_FailureIsolation ==
    (CycleEnded /\ Last.markets # << >>) =>
        /\ Last.kind \in {"done", "alert_error"}
        /\ Last.evaluated = 1..Len(Last.markets)
        /\ Len(Last.opportunities) = Cardinality({k \in 1..Len(Last.markets) : Yields(k)})
        /\ \A k \in 1..Len(Last.markets) :
               Yields(k) <=> \E j \in 1..Len(Last.opportunities) :
                                Last.opportunities[j].marketId
                                    = Last.markets[k].condition_id

\* a cycle of two batches whose first market failed to fetch and whose last
\* market yielded an opportunity
C8_Witness ==
    /\ ServiceRuns /\ CycleEnded /\ Last.kind = "done"
    /\ Len(Last.markets) = 3
    /\ Last.markets[1].condition_id # Last.markets[3].condition_id
    /\ upstream.books[Last.markets[1].condition_id] = CaseFetchFailed
    /\ upstream.books[Last.markets[3].condition_id] = CaseHighProfit
    /\ Len(Last.opportunities) >= 1

\* C9: a catalogue failure is not fatal.  When the catalogue fetch fails,
\* the entry point returns to its caller without an error and with an empty
\* result, the opportunity set is as it was before the cycle, and the
\* scanner is idle again.
C9_CatalogueFailureNotFatal ==
    /\ (CycleEnded /\ Last.kind = "threw") =>
           /\ Last.ret = << >>
           /\ ExposedKeys = Last.keysBefore
           /\ ~isScanning /\ ~srv.isScanning
    /\ act.catalogueFailed =>
           /\ act.outcome = "returned"
           /\ act.content.opportunities = << >>

\* the same, for PolyClaudeService.runScan and the standalone server alone
C9_RunScanCatalogueFailureNotFatal ==
    (CycleEnded /\ Last.kind = "threw") =>
        /\ Last.ret = << >>
        /\ ExposedKeys = Last.keysBefore
        /\ ~isScanning /\ ~srv.isScanning

\* C10: every scan cycle that passes the single-flight check returns the
\* scanner to Idle.  If every await of the cycle settles, a scanning flag
\* that is set is cleared again, and whenever no cycle is in progress the
\* flag is clear, so that the next request is not dropped.
C10_ReturnsToIdle ==
    /\ isScanning ~> ~isScanning
    /\ srv.isScanning ~> ~srv.isScanning
    /\ [](svcObs.active = 0 => ~isScanning /\ ~srv.isScanning)

\* a cycle that ended in an error while alerting, the flag clear
C10_Witness ==
    /\ CycleEnded /\ Last.kind = "alert_error"
    /\ ~isScanning /\ ~term.isScanning

(***************************************************************************)
(* Properties of the nearMisses and liveMarkets lists                      *)
(***************************************************************************)
SortedAscending(list) ==
    \A a, b \in 1..Len(list) : a < b => list[a].deviation <= list[b].deviation

OnePerSlug(list) ==
    \A a, b \in 1..Len(list) : a # b => list[a].slug # list[b].slug

\* the entries of the list before the step whose market is in the list no more
Evicted(before, after) ==
    LET kept == Slugs(after)
    IN  {e \in {before[k] : k \in 1..Len(before)} : e.slug \notin kept}

\* C11: the nearMisses list.  After any sequence of addNearMiss calls the
\* list is sorted by deviation ascending, holds at most 20 entries and at
\* most one entry per market; a call for a market replaces the entry of that
\* market, and when a call takes the list over its capacity the entry that
\* goes is one with the largest deviation (the new entry itself, if no entry
\* is closer than the others).
C11_NearMissList ==
    /\ [](/\ SortedAscending(nearMisses)
          /\ Len(nearMisses) <= 20
          /\ OnePerSlug(nearMisses))
    /\ [][track'.op = "addNearMiss" /\ track'.pc = "addNearMiss" =>
            \A entry \in {[slug |-> track'.slug, deviation |-> track'.rank]} :
            \A after \in {Slugs(nearMisses')} :
            \A gone \in {Evicted(nearMisses, nearMisses')} :
            \A kept \in {\E k \in 1..Len(nearMisses') :
                              /\ nearMisses'[k].slug = entry.slug
                              /\ nearMisses'[k].deviation = entry.deviation} :
                \* the market of the call is in the list with its new deviation,
                \* or the list is full of entries at least as close
                /\ \/ kept
                   \/ /\ entry.slug \notin after
                      /\ Len(nearMisses') = MAX_NEAR_MISSES
                      /\ \A k \in 1..Len(nearMisses') :
                             nearMisses'[k].deviation <= entry.deviation
                \* a replaced entry is not an eviction
                /\ track'.present => kept /\ gone = {}
                                          /\ Len(nearMisses') = Len(nearMisses)
                \* what goes has the largest deviation
                /\ \A e \in gone : \A k \in 1..Len(nearMisses') :
                       e.deviation >= nearMisses'[k].deviation
                /\ Cardinality(gone) <= 1
                /\ gone # {} => Len(nearMisses) = MAX_NEAR_MISSES /\ kept
                \* every other entry stays as it was
                /\ \A entries \in {{nearMisses'[k] : k \in 1..Len(nearMisses')}} :
                   \A k \in 1..Len(nearMisses) :
                       nearMisses[k].slug # entry.slug /\ nearMisses[k] \notin gone
                           => nearMisses[k] \in entries
         ]_vars

\* a call for a new market on a full list put the market in the list, and
\* the list is still full
C11_Witness ==
    /\ track.op = "addNearMiss"
    /\ ~track.present
    /\ track.length = MAX_NEAR_MISSES
    /\ Len(nearMisses) = MAX_NEAR_MISSES
    /\ track.slug \in Slugs(nearMisses)
    /\ MAX_NEAR_MISSES \notin Slugs(nearMisses)

SortedDescending(list) ==
    \A a, b \in 1..Len(list) : a < b => list[a].liquidity >= list[b].liquidity

\* the market of the step's call is in liveMarkets with the liquidity of the
\* call, or liveMarkets is full of entries at least as deep
Offered ==
    \A total \in {track'.rank} :
        \/ \E k \in 1..Len(liveMarkets') :
               /\ liveMarkets'[k].slug = track'.slug
               /\ liveMarkets'[k].liquidity = total
        \/ /\ track'.slug \notin Slugs(liveMarkets')
           /\ Len(liveMarkets') = MAX_LIVE_MARKETS
           /\ \A k \in 1..Len(liveMarkets') : liveMarkets'[k].liquidity >= total

\* C12: the liveMarkets list.  After any sequence of addLiveMarket calls the
\* list is sorted by total liquidity descending, holds at most 15 entries
\* and at most one entry per market; a call for a market replaces the entry
\* of that market, and when a call takes the list over its capacity the
\* entry that goes is one with the lowest liquidity.  scanMarketForArbitrage
\* offers every market whose two books are priced to the list, whether it
\* returns an opportunity for the market or null.
C12_LiveMarketList ==
    /\ [](/\ SortedDescending(liveMarkets)
          /\ Len(liveMarkets) <= 15
          /\ OnePerSlug(liveMarkets))
    /\ [][track'.op = "addLiveMarket" /\ track'.pc = "addLiveMarket" =>
            \A gone \in {Evicted(liveMarkets, liveMarkets')} :
            \A entries \in {{liveMarkets'[k] : k \in 1..Len(liveMarkets')}} :
                /\ Offered
                /\ track'.present => /\ track'.slug \in Slugs(liveMarkets')
                                     /\ gone = {}
                                     /\ Len(liveMarkets') = Len(liveMarkets)
                /\ \A e \in gone : \A k \in 1..Len(liveMarkets') :
                       e.liquidity <= liveMarkets'[k].liquidity
                /\ Cardinality(gone) <= 1
                /\ gone # {} => Len(liveMarkets) = MAX_LIVE_MARKETS
                /\ \A k \in 1..Len(liveMarkets) :
                       liveMarkets[k].slug # track'.slug /\ liveMarkets[k] \notin gone
                           => liveMarkets[k] \in entries
         ]_vars
    /\ [][track'.op = "scanMarketForArbitrage" /\ track'.pc = "scanMarketForArbitrage" =>
            /\ track'.analyzable => Offered
            /\ ~track'.analyzable => liveMarkets' = liveMarkets
                                        /\ nearMisses' = nearMisses
                                        /\ ~track'.accepted
         ]_vars

\* scanMarketForArbitrage returned null for a market with priced books that
\* the full list had not seen; the market is in the list and the last entry
\* of the list has gone
C12_Witness ==
    /\ track.op = "scanMarketForArbitrage"
    /\ track.analyzable /\ ~track.accepted
    /\ ~track.present
    /\ track.length = MAX_LIVE_MARKETS
    /\ Len(liveMarkets) = MAX_LIVE_MARKETS
    /\ track.slug \in Slugs(liveMarkets)
    /\ MAX_LIVE_MARKETS \notin Slugs(liveMarkets)

\* C13: near-miss exclusivity.  A scan cycle writes a market to nearMisses
\* only if the deviation |1 - combinedAsk| of the market lies in (0, 0.05]
\* and the cycle accepted no opportunity for the market: no market of an
\* opportunity of the cycle is in nearMisses, and no entry of nearMisses has
\* deviation 0 or a deviation above 0.05.
C13_NearMissExclusive ==
    (ServerRuns /\ CycleEnded) =>
        /\ \A j \in 1..Len(Last.opportunities) :
               Last.opportunities[j].marketId \notin Slugs(nearMisses)
        /\ \A k \in 1..Len(nearMisses) :
               nearMisses[k].deviation > 0 /\ nearMisses[k].deviation <= 50

\* the part of C13 on the deviation alone
C13_NearMissRange ==
    \A k \in 1..Len(nearMisses) :
        nearMisses[k].deviation > 0 /\ nearMisses[k].deviation <= 50

\* the opportunities that the markets of a cycle yield, in the order of
\* discovery: batch after batch, and in the order of the catalogue within a
\* batch (Promise.all keeps the order of the batch)
Accepted(markets) ==
    LET all == [k \in 1..Len(markets) |->
                   LET id == markets[k].condition_id
                       books == upstream.books[id]
                   IN  scanMarket(MarketOf(id, books), books.yesBook, books.noBook,
                                  DEFAULT_CONFIG)]
    IN  SelectSeq(all, IsOpportunity)

\* ret holds the elements of found, by netProfitPercent non-increasing, the
\* elements of the same netProfitPercent in the order they have in found
Ranked(ret, found) ==
    /\ Len(ret) = Len(found)
    /\ \E from \in [1..Len(ret) -> 1..Len(found)] :
           /\ \A p, q \in 1..Len(ret) : p # q => from[p] # from[q]
           /\ \A p \in 1..Len(ret) : ret[p] = found[from[p]]
           /\ \A p, q \in 1..Len(ret) :
                  p < q => /\ NetGeq(ret[p], ret[q])
                           /\ NetGeq(ret[q], ret[p]) => from[p] < from[q]

C14_TieReached ==
    /\ act.pc = "idle" /\ act.outcome = "returned"
    /\ Len(act.content.opportunities) = 2
    /\ act.content.opportunities[1].marketId = 2
    /\ act.content.opportunities[2].marketId = 1
    /\ NetGeq(act.content.opportunities[2], act.content.opportunities[1])

(***************************************************************************)
(* Properties of calculateRiskScore                                        *)
(***************************************************************************)
\* the penalties of the four dimensions, from the arguments
LiquidityPenalty(input) ==
    IF input.liquidity < 500 THEN 2 ELSE IF input.liquidity < 1000 THEN 1 ELSE 0
SpreadPenalty(input) ==
    IF input.spread > 100 THEN 2 ELSE IF input.spread > 40 THEN 1 ELSE 0
ExpiryPenalty(input) ==
    IF input.hoursToExpiry < 24 THEN 2 ELSE IF input.hoursToExpiry < 168 THEN 1 ELSE 0
MarginPenalty(input) ==
    IF input.profitPercent.n < input.profitPercent.d THEN 1 ELSE 0

RiskCalled == riskCall.calls > 0

\* C15: the risk score is an integer between 3 and 10: it is the smaller of
\* 10 and 3 plus the penalties that the arguments trigger.
C15_RiskScoreBound ==
    RiskCalled =>
        /\ riskCall.out.score \in 3..10
        /\ riskCall.out.score
              = Min(3 + LiquidityPenalty(riskCall.input) + SpreadPenalty(riskCall.input)
                      + ExpiryPenalty(riskCall.input) + MarginPenalty(riskCall.input), 10)

\* the four worst penalties together score 10
C15_Witness ==
    /\ RiskCalled
    /\ riskCall.input.liquidity < 500 /\ riskCall.input.spread > 100
    /\ riskCall.input.hoursToExpiry < 24 /\ riskCall.input.profitPercent = Rat(99, 100)
    /\ riskCall.out.score = 10

\* the arguments of the last call are those of the call before with one
\* argument made worse: less liquidity, a wider spread, less time to expiry
\* or less profit
Worsened ==
    LET a == riskCall.prevInput
        b == riskCall.input
    IN  /\ riskCall.calls = 2
        /\ b.liquidity <= a.liquidity
        /\ b.spread >= a.spread
        /\ b.hoursToExpiry <= a.hoursToExpiry
        /\ RatLeq(b.profitPercent, a.profitPercent)

\* C16: the risk score is monotonic.  With the other three arguments fixed,
\* less liquidity, a wider spread, less time to expiry or less profit never
\* lowers the score; and an expiry in the past scores as an expiry now.
C16_RiskMonotonic ==
    /\ Worsened => riskCall.out.score >= riskCall.prevOut.score
    /\ (/\ riskCall.calls = 2
        /\ riskCall.prevInput.hoursToExpiry = 0
        /\ riskCall.input.hoursToExpiry < 0)
           => riskCall.out.score = riskCall.prevOut.score

\* the liquidity alone fell below 500 and the score rose by 2
C16_Witness ==
    /\ Worsened
    /\ riskCall.prevInput.liquidity = 1000 /\ riskCall.input.liquidity = 499
    /\ riskCall.out.score = riskCall.prevOut.score + 2

\* the expiry alone moved from now into the past
C16_PastExpiryReached ==
    /\ riskCall.calls = 2
    /\ riskCall.prevInput.hoursToExpiry = 0 /\ riskCall.input.hoursToExpiry < 0
    /\ ChangedArguments(riskCall.prevInput, riskCall.input) = {"hoursToExpiry"}

\* the tags that the arguments trigger, one per dimension at most, in the
\* order liquidity, spread, expiry, margin
TriggeredTags(input) ==
    (IF input.liquidity < 500 THEN <<"low_liquidity">>
     ELSE IF input.liquidity < 1000 THEN <<"moderate_liquidity">> ELSE << >>)
    \o (IF input.spread > 100 THEN <<"wide_spread">>
        ELSE IF input.spread > 40 THEN <<"moderate_spread">> ELSE << >>)
    \o (IF input.hoursToExpiry < 24 THEN <<"expiring_soon">>
        ELSE IF input.hoursToExpiry < 168 THEN <<"short_expiry">> ELSE << >>)
    \o (IF input.profitPercent.n < input.profitPercent.d THEN <<"thin_margin">>
        ELSE << >>)

TagWeight(tag) ==
    IF tag \in {"low_liquidity", "wide_spread", "expiring_soon"} THEN 2 ELSE 1

\* the weights of the tags of a list, added
TagWeights(tags) ==
    LET Sum[k \in 0..Len(tags)] == IF k = 0 THEN 0 ELSE Sum[k - 1] + TagWeight(tags[k])
    IN  Sum[Len(tags)]

\* C17: the factor list of calculateRiskScore holds exactly the tags whose
\* condition the arguments trigger, at most one tag per dimension, in the
\* order liquidity, spread, expiry, margin, and the score is 3 plus the
\* weights of the tags of the list.
C17_RiskFactorTags ==
    RiskCalled =>
        /\ riskCall.out.factors = TriggeredTags(riskCall.input)
        /\ riskCall.out.score = 3 + TagWeights(riskCall.out.factors)

\* one tag of every dimension, a moderate one among them
C17_Witness ==
    /\ RiskCalled
    /\ riskCall.out.factors
          = <<"moderate_liquidity", "wide_spread", "short_expiry", "thin_margin">>
    /\ riskCall.out.score = 8

(***************************************************************************)
(* Properties of the pricing                                               *)
(***************************************************************************)
\* the direction by precedence: buying both first, then selling both
Precedence(buyBothProfit, sellBothProfit) ==
    IF buyBothProfit > 0 THEN "BUY_BOTH"
    ELSE IF sellBothProfit > 0 THEN "SELL_BOTH"
    ELSE "NONE"

\* the pricing of the books that scanMarket was called with
BuilderPricing ==
    Pricing(bIn.yesBook.ask, bIn.yesBook.bid, bIn.noBook.ask, bIn.noBook.bid)

\* the direction that the result of analyzeMarket reports
AnalyzedDirection ==
    IF an.out.arbitrage = Null THEN "NONE" ELSE an.out.arbitrage.type

\* scanMarket and scanMarketForArbitrage follow the precedence
C18_BuilderDirectionPrecedence ==
    (bPc = "done" /\ BooksUsable) =>
        \A direction \in {Precedence(1000 - (bIn.yesBook.ask + bIn.noBook.ask),
                                     (bIn.yesBook.bid + bIn.noBook.bid) - 1000)} :
            /\ BuilderPricing.arbDirection = direction
            /\ direction = "NONE" => bOut = Null
            /\ bOut # Null => /\ bOut.arbDirection = direction
                              /\ bOut.intraMarketData.arbDirection = direction

\* C18: direction precedence.  For every usable quadruple of prices one
\* direction is reported: BUY_BOTH if 1 - combinedAsk > 0, otherwise
\* SELL_BOTH if combinedBid - 1 > 0, otherwise NONE; a crossed book reports
\* BUY_BOTH, and a positive profit selects its direction however small it
\* is.
C18_DirectionPrecedence ==
    /\ C18_BuilderDirectionPrecedence
    /\ (an.pc = "done" /\ an.out # Null) =>
           AnalyzedDirection = Precedence(10000 - an.out.combinedAsk,
                                          an.out.combinedBid - 10000)

\* analyzeMarket keeps near-misses and arbitrages apart
C13_AnalyzeExclusive ==
    (an.pc = "done" /\ an.out # Null /\ an.out.isNearMiss) =>
        /\ an.out.arbitrage = Null
        /\ an.out.deviation > 0 /\ an.out.deviation <= 500

\* the books carry no crossed token: bid <= ask for YES and for NO
Uncrossed ==
    /\ bIn.yesBook.bid <= bIn.yesBook.ask
    /\ bIn.noBook.bid <= bIn.noBook.ask

\* C19: pricing sanity.  For every quadruple of best prices with bid <= ask
\* for each token, combinedAsk >= combinedBid, so that buyBothProfit > 0 and
\* sellBothProfit > 0 are never both true for a market.
C19_PricingSanity ==
    (bPc = "done" /\ BooksUsable /\ Uncrossed) =>
        /\ BuilderPricing.combinedAsk = bIn.yesBook.ask + bIn.noBook.ask
        /\ BuilderPricing.combinedBid = bIn.yesBook.bid + bIn.noBook.bid
        /\ BuilderPricing.combinedAsk >= BuilderPricing.combinedBid
        /\ ~(BuilderPricing.buyBothProfit > 0 /\ BuilderPricing.sellBothProfit > 0)
        /\ bOut # Null =>
               /\ bOut.intraMarketData.combinedAsk >= bOut.intraMarketData.combinedBid
               /\ ~(/\ bOut.intraMarketData.buyBothProfit > 0
                    /\ bOut.intraMarketData.sellBothProfit > 0)

\* an opportunity to sell both on uncrossed books: both sums above 1
C19_Witness ==
    /\ bPc = "done" /\ BooksUsable /\ Uncrossed
    /\ bOut # Null
    /\ bOut.arbDirection = "SELL_BOTH"
    /\ bOut.intraMarketData.combinedAsk > bOut.intraMarketData.combinedBid
    /\ bOut.intraMarketData.buyBothProfit < 0

RatEq(a, b) == a.n * b.d = b.n * a.d

\* C20: the gross profit in percent.  Buying both, grossProfitPercent is
\* (1 - combinedAsk) / combinedAsk * 100; selling both, it is
\* (combinedBid - 1) * 100.  Asks 0.40 + 0.55 give BUY_BOTH with 100/19 %
\* (about 5.263 %); bids 0.58 + 0.58 with asks 0.60 + 0.60 give SELL_BOTH
\* with 16 %.
C20_GrossProfitPercent ==
    (bPc = "done" /\ BooksUsable) =>
        \A cAsk \in {bIn.yesBook.ask + bIn.noBook.ask} :
        \A cBid \in {bIn.yesBook.bid + bIn.noBook.bid} :
        \A p \in {BuilderPricing} :
            /\ p.arbDirection = "BUY_BOTH" =>
                   RatEq(p.grossProfitPercent, Rat((1000 - cAsk) * 100, cAsk))
            /\ p.arbDirection = "SELL_BOTH" =>
                   RatEq(p.grossProfitPercent, Rat(cBid - 1000, 10))
            /\ bOut # Null => bOut.grossProfitPercent = p.grossProfitPercent
            /\ (bIn.yesBook.ask = 400 /\ bIn.noBook.ask = 550) =>
                   /\ p.arbDirection = "BUY_BOTH"
                   /\ RatEq(p.grossProfitPercent, Rat(100, 19))
                   /\ RatLess(Rat(5263, 1000), p.grossProfitPercent)
                   /\ RatLess(p.grossProfitPercent, Rat(5264, 1000))
            /\ (cAsk = 1200 /\ cBid = 1160) =>
                   /\ p.arbDirection = "SELL_BOTH"
                   /\ RatEq(p.grossProfitPercent, Rat(16, 1))

\* the first example, accepted: asks 0.40 + 0.55, bids 0.38 + 0.53
C20_Witness ==
    /\ bPc = "done"
    /\ bIn.yesBook.ask = 400 /\ bIn.yesBook.bid = 380
    /\ bIn.noBook.ask = 550 /\ bIn.noBook.bid = 530
    /\ bOut # Null
    /\ bOut.arbDirection = "BUY_BOTH"
    /\ RatEq(bOut.grossProfitPercent, Rat(100, 19))

\* the second example, accepted: asks 0.60 + 0.60, bids 0.58 + 0.58
C20_SellBothReached ==
    /\ bPc = "done"
    /\ bIn.yesBook.ask = 600 /\ bIn.yesBook.bid = 580
    /\ bIn.noBook.ask = 600 /\ bIn.noBook.bid = 580
    /\ bOut # Null
    /\ bOut.arbDirection = "SELL_BOTH"
    /\ RatEq(bOut.grossProfitPercent, Rat(16, 1))

\* C21: the fee adjustment.  Every accepted opportunity has estimatedFees
\* 0.01, estimatedGas 0.002 and breakeven 0.012 (10, 2 and 12 thousandths);
\* its netProfitPercent is grossProfitPercent - 1.2 and its netProfitAbsolute
\* is grossProfitAbsolute - 0.012, where grossProfitAbsolute is buyBothProfit
\* for BUY_BOTH and sellBothProfit for SELL_BOTH: the same deduction in both
\* directions.
C21_FeeAdjustment ==
    (bPc = "done" /\ bOut # Null) =>
        /\ bOut.estimatedFees = 10
        /\ bOut.estimatedGas = 2
        /\ bOut.breakeven = 12
        /\ bOut.arbDirection \in {"BUY_BOTH", "SELL_BOTH"}
        /\ bOut.arbDirection = "BUY_BOTH" =>
               bOut.grossProfitAbsolute = 1000 - (bIn.yesBook.ask + bIn.noBook.ask)
        /\ bOut.arbDirection = "SELL_BOTH" =>
               bOut.grossProfitAbsolute = (bIn.yesBook.bid + bIn.noBook.bid) - 1000
        /\ bOut.netProfitAbsolute = bOut.grossProfitAbsolute - 12
        \* net = gross - 12/10
        /\ bOut.netProfitPercent.n * bOut.grossProfitPercent.d * 10 =
               (bOut.grossProfitPercent.n * 10 - 12 * bOut.grossProfitPercent.d)
                   * bOut.netProfitPercent.d

\* an accepted SELL_BOTH opportunity: bids 0.58 + 0.58 give a gross profit of
\* 0.16 and 16 %, a net profit of 0.148 and 14.8 %
C21_Witness ==
    /\ bPc = "done"
    /\ bOut # Null
    /\ bOut.arbDirection = "SELL_BOTH"
    /\ bOut.grossProfitAbsolute = 160
    /\ bOut.netProfitAbsolute = 148
    /\ RatEq(bOut.netProfitPercent, Rat(148, 10))

\* an accepted BUY_BOTH opportunity: asks 0.40 + 0.55 give a gross profit of
\* 0.05, a net profit of 0.038 and 100/19 - 6/5 = 386/95 %
C21_BuyBothReached ==
    /\ bPc = "done"
    /\ bOut # Null
    /\ bOut.arbDirection = "BUY_BOTH"
    /\ bOut.grossProfitAbsolute = 50
    /\ bOut.netProfitAbsolute = 38
    /\ RatEq(bOut.netProfitPercent, Rat(386, 95))

\* C22: the sizing is bounded by the liquidity.  For every accepted
\* opportunity, with minLiquidity the smaller of the two ask depths,
\* recommendedSize = min(0.10 * minLiquidity, 1000) and maxSize =
\* 0.50 * minLiquidity, so recommendedSize <= maxSize <= minLiquidity and
\* recommendedSize <= 1000.  Sizes are in tenths: 1000 is 10000 tenths.
C22_Sizing ==
    (bPc = "done" /\ bOut # Null) =>
        \A minLiquidity \in {IF bIn.yesBook.liquidity <= bIn.noBook.liquidity
                             THEN bIn.yesBook.liquidity
                             ELSE bIn.noBook.liquidity} :
            /\ bOut.liquidity = minLiquidity
            /\ bOut.recommendedSize =
                   (IF minLiquidity <= 10000 THEN minLiquidity ELSE 10000)
            /\ 2 * bOut.maxSize = 10 * minLiquidity
            /\ bOut.recommendedSize <= bOut.maxSize
            /\ bOut.maxSize <= 10 * minLiquidity
            /\ bOut.recommendedSize <= 10000

\* an accepted opportunity on books deeper than 10000 on both sides: the
\* recommended size is the cap 1000 and the maximal size is 10000
C22_Witness ==
    /\ bPc = "done"
    /\ bOut # Null
    /\ bIn.yesBook.liquidity = 20000 /\ bIn.noBook.liquidity = 20000
    /\ bOut.recommendedSize = 10000
    /\ bOut.maxSize = 100000

\* an accepted opportunity below the cap: depths 600 and 1000 give a
\* recommended size of 60 and a maximal size of 300
C22_BelowCapReached ==
    /\ bPc = "done"
    /\ bOut # Null
    /\ bIn.yesBook.liquidity = 600 /\ bIn.noBook.liquidity = 1000
    /\ bOut.recommendedSize = 600
    /\ bOut.maxSize = 3000

\* C23: the qualitative fields of an opportunity record follow its
\* riskScore.  riskLevel is LOW for a score of at most 3, MEDIUM for 4..5,
\* HIGH for 6..7 and EXTREME above 7; confidenceScore is 0.95 for a score
\* of at most 3, 0.8 for 4..5 and 0.6 otherwise (in hundredths: 95, 80, 60).
C23_QualitativeFields ==
    (bPc = "done" /\ bOut # Null) =>
        /\ bOut.riskScore \in 0..10
        /\ bOut.riskScore <= 3 =>
               bOut.riskLevel = "LOW" /\ bOut.confidenceScore = 95
        /\ bOut.riskScore \in 4..5 =>
               bOut.riskLevel = "MEDIUM" /\ bOut.confidenceScore = 80
        /\ bOut.riskScore \in 6..7 =>
               bOut.riskLevel = "HIGH" /\ bOut.confidenceScore = 60
        /\ bOut.riskScore > 7 =>
               bOut.riskLevel = "EXTREME" /\ bOut.confidenceScore = 60

\* an accepted opportunity of score 6: HIGH, confidence 0.6
C23_Witness ==
    /\ bPc = "done"
    /\ bOut # Null
    /\ bOut.riskScore = 6
    /\ bOut.riskLevel = "HIGH"
    /\ bOut.confidenceScore = 60

\* accepted opportunities of the other three levels
C23_LowReached ==
    bPc = "done" /\ bOut # Null /\ bOut.riskScore = 3 /\ bOut.riskLevel = "LOW"

C23_MediumReached ==
    bPc = "done" /\ bOut # Null /\ bOut.riskScore = 5 /\ bOut.riskLevel = "MEDIUM"

C23_ExtremeReached ==
    bPc = "done" /\ bOut # Null /\ bOut.riskScore = 8 /\ bOut.riskLevel = "EXTREME"

\* the evaluations in flight belong to the current batch, and every market
\* of an earlier batch has been evaluated
OneBatchInFlight(pending, i, n, size, results) ==
    /\ pending \subseteq BatchIndices(i, n, size)
    /\ \A k \in 1..n : k <= i => k \in DOMAIN results

\* the fetches of a batch are issued only when no evaluation is in flight and
\* every market before the batch has been evaluated
IssuedAfterJoin(pending, issued, i, results) ==
    issued \ pending # {} =>
        /\ pending = {}
        /\ \A k \in issued : k > i
        /\ \A k \in 1..i : k \in DOMAIN results

\* C24: batches are strictly sequential.  Within a scan cycle no order-book
\* fetch for a market of a later batch is issued before every market
\* evaluation of the batch before it has completed, as an opportunity or as
\* unusable; only the markets of one batch are evaluated concurrently.
C24_SequentialBatches ==
    /\ [](/\ OneBatchInFlight(scan.pending, scan.i, Len(scan.activeMarkets),
                              batchSize, scan.results)
          /\ OneBatchInFlight(srv.pending, srv.i, Len(srv.markets),
                              serverBatchSize, srv.results))
    /\ [][/\ IssuedAfterJoin(scan.pending, scan'.pending, scan'.i, scan.results)
          /\ IssuedAfterJoin(srv.pending, srv'.pending, srv'.i, srv.results)]_vars

\* the second batch of a service cycle is in flight after the first batch of
\* two markets was evaluated
C24_Witness ==
    /\ scan.pc = "batch"
    /\ scan.i = batchSize
    /\ scan.pending # {}
    /\ DOMAIN scan.results = 1..batchSize

\* the same in the standalone server
C24_ServerSecondBatchReached ==
    /\ srv.pc = "batch"
    /\ srv.i = serverBatchSize
    /\ srv.pending # {}
    /\ DOMAIN srv.results = 1..serverBatchSize

\* two markets of one batch are in flight together
C24_ConcurrentReached ==
    Cardinality(scan.pending) = 2 \/ Cardinality(srv.pending) = 2

\* the shared collections of the plugin service (the alert window and the
\* statistics) change only while no evaluation is in flight
ServiceMutatesAfterJoin ==
    (term'.alerts # term.alerts \/ term'.stats # term.stats \/ stats' # stats) =>
        scan.pending = {}

\* the alert list and the statistics of the standalone server change only
\* while no evaluation is in flight
ServerAlertsMutateAfterJoin ==
    (srv'.alerts # srv.alerts \/ srv'.stats # srv.stats) => srv.pending = {}

\* the near-miss list and the live-market list change only when no other
\* evaluation of the batch is still in flight
TrackingMutatesAfterJoin ==
    (nearMisses' # nearMisses \/ liveMarkets' # liveMarkets) => srv'.pending = {}

\* C25: no shared collection (opportunity set, near-miss list, live-market
\* list, scan statistics) is mutated while an order-book fetch of the current
\* batch is still outstanding: every mutation is made on the sequential path
\* of the orchestrator, after the concurrent fetches of the batch have joined.
C25_MutationAfterJoin ==
    [][ServiceMutatesAfterJoin /\ ServerAlertsMutateAfterJoin
           /\ TrackingMutatesAfterJoin]_vars

\* the part of C25 that the code keeps: opportunity sets and statistics
C25_AlertsAndStatsAfterJoin ==
    [][ServiceMutatesAfterJoin /\ ServerAlertsMutateAfterJoin]_vars

\* the live-market list has an entry of one market of the batch while the
\* other market of the batch is still being fetched
C25_MutatedWhileFetching ==
    /\ srv.pc = "batch"
    /\ srv.pending # {}
    /\ srv.i = 0
    /\ liveMarkets # << >>

\* the market of the scanned catalogue an opportunity was found in
ConfigMarketOf(o) ==
    CHOOSE m \in {cfg.markets[k] : k \in 1..Len(cfg.markets)} :
        m.condition_id = o.marketId

\* C26: the category filters.  When excludeCategories is configured no market
\* whose category is in it yields an opportunity, also when that category is
\* in includeCategories too; when includeCategories is configured only
\* markets whose category is in it yield opportunities.
C26_CategoryFilters ==
    cfg.pc = "done" =>
        \A k \in 1..Len(cfg.opportunities) :
            \A category \in {ConfigMarketOf(cfg.opportunities[k]).category} :
                /\ "excludeCategories" \in DOMAIN cfg.config =>
                       category \notin cfg.config.excludeCategories
                /\ "includeCategories" \in DOMAIN cfg.config =>
                       category \in cfg.config.includeCategories

\* updateConfig stores the filters it is given
C26_FiltersStored ==
    [][\A newConfig \in NewConfigs :
           UpdateConfigCall(newConfig) =>
               \A k \in DOMAIN newConfig : cfg'.config[k] = newConfig[k]]_vars

\* a scan under excludeCategories = ["politics"] returns an opportunity of a
\* market of category politics
C26_ExcludedAccepted ==
    /\ cfg.pc = "done"
    /\ "excludeCategories" \in DOMAIN cfg.config
    /\ \E k \in 1..Len(cfg.opportunities) :
           ConfigMarketOf(cfg.opportunities[k]).category
               \in cfg.config.excludeCategories

\* a call put a record at the head of the window: the records behind it are
\* the first records of the window before, in their order, and a record is
\* missing only if the window was full
InsertedAtHead(before, after) ==
    /\ Len(after) = Min(Len(before) + 1, AlertCapacity)
    /\ \A k \in 2..Len(after) : after[k] = before[k - 1]

\* a call replaced the record of one market where it was
ReplacedInPlace(before, after) ==
    /\ Len(after) = Len(before)
    /\ \E idx \in 1..Len(before) :
          /\ after[idx].marketId = before[idx].marketId
          /\ \A k \in 1..Len(before) : k # idx => after[k] = before[k]

\* C27: the rolling result window.  After any sequence of addAlert calls the
\* window holds at most its capacity of records (100 in the program); when an
\* insert exceeds the capacity the records dropped are the oldest ones, at
\* the tail, never the record just inserted; records are removed for no other
\* reason than capacity.
C27_RollingWindow ==
    /\ [](Len(term.alerts) <= AlertCapacity /\ Len(srv.alerts) <= AlertCapacity)
    /\ [][/\ term' # term =>
                \A before \in {term.alerts} : \A after \in {term'.alerts} :
                    InsertedAtHead(before, after)
          /\ srv' # srv =>
                \A before \in {srv.alerts} : \A after \in {srv'.alerts} :
                    \/ InsertedAtHead(before, after)
                         /\ \A k \in 1..Len(before) :
                                before[k].marketId # after[1].marketId
                    \/ ReplacedInPlace(before, after)]_vars

\* the terminal window is full after more inserts than it holds, with the
\* last inserted market at its head
C27_Witness ==
    /\ term.stats.totalOpportunitiesFound > AlertCapacity
    /\ Len(term.alerts) = AlertCapacity
    /\ term.alerts[1].opportunity.marketId = AlertCapacity + 1

\* the same for the window of the standalone server: market 1, the oldest,
\* is gone
C27_ServerEvictionReached ==
    /\ srv.stats.totalFound > AlertCapacity
    /\ Len(srv.alerts) = AlertCapacity
    /\ srv.alerts[1].marketId = AlertCapacity + 1
    /\ \A k \in 1..Len(srv.alerts) : srv.alerts[k].marketId # 1

\* best is the largest netProfitPercent of the records, or 0 without records
IsBestProfit(best, records) ==
    IF Len(records) = 0 THEN RatEq(best, Rat(0, 1))
    ELSE /\ \A k \in 1..Len(records) : RatLeq(records[k].netProfitPercent, best)
         /\ \E k \in 1..Len(records) : RatEq(records[k].netProfitPercent, best)

C28_TerminalReached ==
    /\ Len(term.alerts) >= 2
    /\ RatLess(term.alerts[1].opportunity.netProfitPercent,
               term.alerts[2].opportunity.netProfitPercent)
    /\ TerminalApiState(term).stats.bestProfit =
           term.alerts[2].opportunity.netProfitPercent

\* the cumulative counter the state request of the running entry point
\* exposes
ExposedTotalFound ==
    IF ServerRuns THEN ServerApiState(srv).stats.totalFound
    ELSE TerminalApiState(term).stats.totalFound

\* C29: the cumulative opportunity counter.  After any number of completed
\* scan cycles the totalOpportunitiesFound / totalFound value exposed by the
\* terminal state is the sum over those cycles of the number of opportunities
\* each cycle accepted, an accepted opportunity counting once per cycle.
C29_CumulativeCounter ==
    (svcObs.active = 0 /\ (ServiceRuns \/ ServerRuns)) =>
        ExposedTotalFound = svcObs.found

\* the counter of the service itself is the sum over the cycles
C29_ServiceCounter ==
    (svcObs.active = 0 /\ ServiceRuns) => stats.totalOpportunitiesFound = svcObs.found

\* one service cycle that accepted one opportunity has ended and the terminal
\* state reports two
C29_CountedTwice ==
    /\ ServiceRuns /\ CycleEnded
    /\ svcObs.cycles = 1
    /\ Len(Last.opportunities) = 1
    /\ TerminalApiState(term).stats.totalFound = 2

\* two server cycles that each accepted the same market have ended and the
\* server reports one
C29_CountedOncePerMarket ==
    /\ ServerRuns /\ CycleEnded
    /\ svcObs.cycles = 2
    /\ svcObs.found = 2
    /\ ServerApiState(srv).stats.totalFound = 1

\* the scan counters of the running entry point
ScanCounters == IF ServerRuns THEN srv.stats ELSE stats

\* C30: the scan counters.  totalScans increases by exactly one for every
\* scan cycle that single-flight does not drop, also for a cycle whose
\* catalogue is empty or fails, and never for a dropped request; after a
\* cycle marketsScanned is the number of markets that cycle evaluated.
\* svcObs.cycles counts the cycles started, which a dropped request is not.
C30_ScanCounters ==
    (svcObs.active = 0 /\ (ServiceRuns \/ ServerRuns)) =>
        /\ ScanCounters.totalScans = svcObs.cycles
        /\ ~Last.isNull => ScanCounters.marketsScanned = Cardinality(Last.evaluated)

\* the standalone server counts every cycle it starts, and no dropped request
C30_ServerTotalScans ==
    ServerRuns => srv.stats.totalScans = svcObs.cycles

\* a request dropped by single-flight changes no counter
C30_DroppedNotCounted ==
    [][(svcObs'.req = "dropped" /\ svcObs.req # "dropped") =>
           (stats' = stats /\ srv'.stats = srv.stats)]_vars

\* a cycle that evaluated markets leaves their number in marketsScanned
C30_MarketsScannedAfterEvaluation ==
    (svcObs.active = 0 /\ (ServiceRuns \/ ServerRuns) /\ ~Last.isNull
        /\ Last.kind \in {"done", "alert_error"}) =>
        ScanCounters.marketsScanned = Cardinality(Last.evaluated)

\* a service cycle on an empty catalogue has ended and totalScans is still 0
C30_EmptyCycleNotCounted ==
    /\ ServiceRuns /\ CycleEnded
    /\ Last.kind = "empty"
    /\ svcObs.cycles = 1
    /\ stats.totalScans = 0

\* a service cycle whose catalogue request failed has ended and totalScans is
\* still 0
C30_FailedCycleNotCounted ==
    /\ ServiceRuns /\ CycleEnded
    /\ Last.kind = "threw"
    /\ svcObs.cycles = 1
    /\ stats.totalScans = 0

\* C31: after clearCooldown(m) the next alert for market m is allowed
\* whatever the time, and the cooldown state of every other market is as it
\* was; after clearAllCooldowns() the next alert for every market is allowed;
\* a call that finds no stamp for its market is never suppressed; and the
\* sends and clears of one gate instance never change the map of the other.
C31_ClearCooldowns ==
    /\ [][\A m \in Markets :
              ClearCooldownCall(m) =>
                  /\ \A t \in 0..MaxClock : shouldSendAlert(lastAlertTime', m, t)
                  /\ \A k \in Markets \ {m} :
                         MapGet(lastAlertTime', k) = MapGet(lastAlertTime, k)]_vars
    /\ [][ClearAllCooldownsCall =>
              \A k \in Markets, t \in 0..MaxClock :
                  shouldSendAlert(lastAlertTime', k, t)]_vars
    /\ [][\A m \in Markets :
              SendArbitrageAlertBegin(m) =>
                  tgCall'.suppressed = ~shouldSendAlert(lastAlertTime, m, now)]_vars
    /\ [][tgAux'.other # tgAux.other => lastAlertTime' = lastAlertTime]_vars
    /\ [][lastAlertTime' # lastAlertTime => tgAux'.other = tgAux.other]_vars
    /\ [][tgCall'.m # 0 /\ tgCall'.prev = Undefined => ~tgCall'.suppressed]_vars

\* an alert delivered inside what was the cooldown window of its market,
\* after clearCooldown removed the stamp, while the other market kept its
\* stamp and the second instance holds stamps of its own
C31_Witness ==
    /\ CallReturned
    /\ tgCall.ret = "true"
    /\ tgCall.prev = Undefined
    /\ tgAux.op = "clearCooldown"
    /\ tgAux.m = tgCall.m
    /\ tgCall.m \in DOMAIN tgAux.before
    /\ tgCall.checkAt - tgAux.before[tgCall.m] <= cooldownMs
    /\ \E k \in Markets \ {tgCall.m} :
           /\ k \in DOMAIN lastAlertTime
           /\ lastAlertTime[k] < tgAux.before[tgCall.m]
    /\ tgAux.other # << >>

\* the same after clearAllCooldowns, for a market of a map that held two
C31_ClearAllReached ==
    /\ CallReturned
    /\ tgCall.ret = "true"
    /\ tgCall.prev = Undefined
    /\ tgAux.op = "clearAllCooldowns"
    /\ DOMAIN tgAux.before = Markets
    /\ tgCall.checkAt - tgAux.before[tgCall.m] <= cooldownMs

\* the second instance suppresses nothing of the first: both hold a stamp for
\* the same market, taken at different times
C31_InstancesDiffer ==
    \E m \in Markets :
        /\ m \in DOMAIN lastAlertTime
        /\ m \in DOMAIN tgAux.other
        /\ lastAlertTime[m] # tgAux.other[m]

\* C32: the cooldown map of the service's gate has one writer at a time.
\* Every sendArbitrageAlert the service starts finds no other call of the
\* gate running; while a call runs, the loop that made it waits for it and
\* no other cycle is in progress; and a delivery for a market follows the
\* previous delivery for it by more than the cooldown.
C32_NoOverlappingAlerts ==
    /\ [][AlertCall => tgPc = "idle"]_vars
    /\ [][tgPc # "idle" =>
             /\ scan.pc = "alerting" /\ scan.pending = {1}
             /\ scan'.pc = "alerting" /\ scan'.queue = scan.queue
             /\ svcObs.active = 1 /\ svcObs'.active = 1]_vars
    /\ [][(tgCall'.ret = "true" /\ tgCall.ret # "true" /\ tgCall'.prev # Undefined) =>
             lastAlertTime'[tgCall'.m] - tgCall'.prev > cooldownMs]_vars

\* a call of the second cycle delivers for a market the first cycle had
\* stamped, and a request made while it ran was dropped
C32_Witness ==
    /\ svcObs.cycles = 2
    /\ svcObs.req = "dropped"
    /\ CallReturned
    /\ tgCall.ret = "true"
    /\ tgCall.prev # Undefined
    /\ scan.pc = "alerting"

\* a call suppressed inside the window opened by an earlier call of the same
\* cycle
C32_SuppressedInCycle ==
    /\ svcObs.cycles = 1
    /\ scan.pc = "alerting"
    /\ tgCall.suppressed
    /\ tgCall.prev # Undefined

\* the alerts the state endpoint of the terminal server returns
ExposedAlerts == TerminalApiState(term).alerts

\* the cycle of the service that ended last handed its opportunities to the
\* terminal server
HandedToDisplay ==
    /\ ServiceRuns /\ CycleEnded
    /\ Last.kind \in {"done", "alert_error"}
    /\ Len(Last.opportunities) <= AlertCapacity

\* C33: exposed ordering.  After a cycle has handed its opportunities to the
\* terminal server, the state endpoint returns at most 50 alerts; the records
\* of that cycle come first, ahead of the records of older cycles, and among
\* them a higher netProfitPercent comes before a lower one.
C33_ExposedOrdering ==
    HandedToDisplay =>
        LET n == Len(Last.opportunities)
        IN  /\ Len(ExposedAlerts) <= StateAlertLimit
            /\ n <= Len(ExposedAlerts)
            /\ \A p \in 1..n :
                   \E q \in 1..n : ExposedAlerts[p].opportunity = Last.opportunities[q]
            /\ \A p \in 1..(Len(ExposedAlerts) - n) :
                   ExposedAlerts[n + p].opportunity.marketId = Last.keysBefore[p]
            /\ \A p, q \in 1..n :
                   p < q => NetGeq(ExposedAlerts[p].opportunity,
                                   ExposedAlerts[q].opportunity)

\* the same without the order inside the cycle: the records of the cycle
\* come ahead of the older ones, at most 50 in all
C33_NewestCycleFirst ==
    HandedToDisplay =>
        LET n == Len(Last.opportunities)
        IN  /\ Len(ExposedAlerts) <= StateAlertLimit
            /\ n <= Len(ExposedAlerts)
            /\ \A p \in 1..n :
                   \E q \in 1..n : ExposedAlerts[p].opportunity = Last.opportunities[q]
            /\ \A p \in 1..(Len(ExposedAlerts) - n) :
                   ExposedAlerts[n + p].opportunity.marketId = Last.keysBefore[p]

\* the records of a cycle are exposed in the reverse of the order in which
\* runScan handed them over
C33_ReversedInCycle ==
    HandedToDisplay =>
        \A p \in 1..Len(Last.opportunities) :
            ExposedAlerts[p].opportunity
                = Last.opportunities[Len(Last.opportunities) + 1 - p]

\* a cycle handed over two opportunities and the endpoint lists the one of
\* the lower netProfitPercent first
C33_LowerFirstReached ==
    /\ HandedToDisplay
    /\ Len(Last.opportunities) = 2
    /\ ~NetGeq(ExposedAlerts[1].opportunity, ExposedAlerts[2].opportunity)

\* C34: auto-scan timer.  At most one interval timer exists and it is the one
\* the service holds; startAutoScan while a timer is held changes nothing (no
\* timer, no scan request); a timer fires only while the service holds it, so
\* none fires after stopAutoScan; stopAutoScan leaves the cycle in progress
\* alone, and that cycle ends; startAutoScan without a timer sets one.
C34_AutoScanTimer ==
    /\ [][/\ Cardinality(auto'.live) <= 1
          /\ auto'.live = IF auto'.scanInterval = 0 THEN {}
                          ELSE {auto'.scanInterval}]_vars
    /\ [][(StartAutoScan /\ auto.scanInterval # 0) => UNCHANGED vars]_vars
    /\ [][\A id \in 1..MaxTimers : TimerFires(id) => auto.scanInterval = id]_vars
    /\ [][StopAutoScan =>
             /\ auto'.scanInterval = 0 /\ auto'.live = {}
             /\ UNCHANGED <<isScanning, stats, term, scan, svcObs>>]_vars
    /\ [][(StartAutoScan /\ auto.scanInterval = 0) =>
             /\ auto'.scanInterval # 0
             /\ auto'.live = {auto'.scanInterval}
             /\ auto'.scanInterval \notin auto.live]_vars
    /\ (auto.scanInterval = 0 /\ svcObs.active = 1) ~> (svcObs.active = 0)

\* a second timer was set after the first was cleared, and a cycle it
\* started is in progress
C34_Witness ==
    /\ auto.created = 2
    /\ auto.live = {2}
    /\ svcObs.cycles = 2
    /\ svcObs.active = 1
    /\ scan.pc = "batch"

\* a cycle that was in progress when the timer was cleared has ended
C34_EndedAfterStop ==
    /\ auto.created = 1
    /\ auto.scanInterval = 0
    /\ svcObs.cycles = 1
    /\ CycleEnded
    /\ Last.kind = "done"

\* startAutoScan was called while the timer was held and a cycle was idle:
\* no request was made
C34_NoopReached ==
    /\ auto.scanInterval # 0
    /\ ENABLED (StartAutoScan /\ svcObs.active = 0)

\* netProfitPercent >= 1
Significant(o) == RatLeq(Rat(1, 1), o.netProfitPercent)

\* runScan has handed the cycle's opportunities to the terminal server in
\* this step, and goes on to the alerts or returns
HandsOver ==
    /\ scan.pc \in {"getMarkets", "batch"}
    /\ \/ scan'.pc = "alerting"
       \/ svcObs'.active = 0 /\ svcObs'.last.kind = "done"

HandedOver == IF scan'.pc = "alerting" THEN scan'.opportunities
              ELSE svcObs'.last.opportunities

\* C35: alert fan-out per cycle.  The alerts a cycle is going to attempt are
\* opportunities of the cycle with netProfitPercent >= 1, at most 3 of them,
\* in non-increasing profit order, and no opportunity left out has a higher
\* profit than one of them; a sendArbitrageAlert call begins only from the
\* loop, for the first alert still to attempt, and the loop moves on by one
\* when the call has returned; and every opportunity of the cycle is handed
\* to the terminal server, one addAlert each, whatever its profit.
C35_AlertFanOut ==
    /\ [][HandsOver =>
             LET opps == HandedOver
                 queue == IF scan'.pc = "alerting" THEN scan'.queue ELSE << >>
                 n == Len(opps)
             IN  /\ Len(queue) <= MaxAlertsPerScan
                 /\ \A k \in 1..Len(queue) :
                        /\ Significant(queue[k])
                        /\ queue[k] = opps[k]
                 /\ \A k \in 1..n :
                        (Significant(opps[k]) /\ k > Len(queue)) =>
                            /\ Len(queue) = MaxAlertsPerScan
                            /\ \A q \in 1..Len(queue) : NetGeq(queue[q], opps[k])
                 /\ \A p, q \in 1..Len(queue) : p < q => NetGeq(queue[p], queue[q])
                 /\ term'.stats.totalOpportunitiesFound
                        = stats'.totalOpportunitiesFound + n
                 /\ \A k \in 1..Min(n, AlertCapacity) :
                        term'.alerts[k].opportunity = opps[n + 1 - k]]_vars
    /\ [][(tgPc = "idle" /\ tgCall' # tgCall) =>
             /\ scan.pc = "alerting" /\ scan.pending = {}
             /\ tgCall'.m = Head(scan.queue).marketId
             /\ scan'.queue = scan.queue]_vars
    /\ [][(scan.pc = "alerting" /\ scan'.pc = "alerting" /\ scan'.queue # scan.queue) =>
             /\ scan.pending = {1} /\ tgPc = "idle"
             /\ scan'.queue = Tail(scan.queue)]_vars

\* a cycle with four opportunities of 5.18 %: three alerts are attempted one
\* after another, the last of them is running, and the terminal server was
\* handed all four
C35_Witness ==
    /\ scan.pc = "alerting"
    /\ Len(scan.opportunities) = MaxAlertsPerScan + 1
    /\ \A k \in 1..Len(scan.opportunities) : Significant(scan.opportunities[k])
    /\ Len(scan.queue) = 1
    /\ tgPc # "idle"
    /\ term.stats.totalOpportunitiesFound
           = stats.totalOpportunitiesFound + MaxAlertsPerScan + 1

\* a cycle with opportunities below 1 %: they are shown and not alerted
C35_BelowOneReached ==
    /\ scan.pc = "alerting"
    /\ Len(scan.opportunities) = 3
    /\ Len(scan.queue) = 2
    /\ ~Significant(scan.opportunities[3])
    /\ \E k \in 1..Len(term.alerts) : ~Significant(term.alerts[k].opportunity)

\* the transport accepted the message of one send attempt
Delivered(outcome) == tgEnabled /\ outcome = "ok"

\* C36: delivery fallback.  A sendArbitrageAlert call makes at most two send
\* attempts, the plain-text one only after the formatted one failed, and none
\* when the market is in its cooldown; it returns true exactly when one of
\* its attempts was delivered, and false otherwise, also when the transport
\* raised an error.
C36_DeliveryFallback ==
    tgCall.m # 0 =>
        /\ tgCall.sent <= 2
        /\ Len(tgCall.outcomes) <= tgCall.sent
        /\ ~shouldSendAlert(tgCall.before, tgCall.m, tgCall.checkAt) =>
               /\ tgCall.sent = 0 /\ tgCall.outcomes = << >>
               /\ tgPc = "idle" /\ tgCall.ret = "false"
        /\ tgCall.sent = 2 =>
               /\ Len(tgCall.outcomes) >= 1
               /\ ~Delivered(tgCall.outcomes[1])
        /\ tgPc = "idle" =>
               /\ tgCall.ret \in {"true", "false"}
               /\ Len(tgCall.outcomes) = tgCall.sent
               /\ tgCall.ret = "true" <=>
                      \E k \in 1..Len(tgCall.outcomes) : Delivered(tgCall.outcomes[k])
               /\ (tgCall.sent >= 1 /\ ~Delivered(tgCall.outcomes[1])) => tgCall.sent = 2
               /\ (tgCall.sent >= 1 /\ Delivered(tgCall.outcomes[1])) => tgCall.sent = 1

\* the transport raised an error on the formatted message and accepted the
\* plain-text one: the call made two attempts and returned true
C36_Witness ==
    /\ CallReturned
    /\ tgCall.outcomes = <<"error", "ok">>
    /\ tgCall.sent = 2
    /\ tgCall.ret = "true"

\* both attempts ended in a transport error and the call returned false
C36_BothFailedReached ==
    /\ CallReturned
    /\ tgEnabled
    /\ tgCall.outcomes = <<"error", "error">>
    /\ tgCall.ret = "false"

\* a call in the cooldown of its market made no attempt
C36_SuppressedReached ==
    /\ CallReturned
    /\ tgCall.suppressed
    /\ tgCall.sent = 0
    /\ tgCall.ret = "false"

\* the markets that were offered to liveMarkets and are not in it
Dropped37 == (DOMAIN track.latest) \ Slugs(liveMarkets)

\* C37: top-k content of liveMarkets.  After any sequence of addLiveMarket
\* calls the list holds min(15, n) of the n markets ever offered, each with
\* the liquidity of its latest call, and no market of the list has a lower
\* latest liquidity than a market that is not in the list.
C37_TopKContent ==
    track.pc \in {"addLiveMarket", "scanMarketForArbitrage"} =>
        /\ Len(liveMarkets) = Min(MAX_LIVE_MARKETS, Cardinality(DOMAIN track.latest))
        /\ \A k \in 1..Len(liveMarkets) :
               /\ liveMarkets[k].slug \in DOMAIN track.latest
               /\ liveMarkets[k].liquidity = track.latest[liveMarkets[k].slug]
        /\ \A d \in Dropped37 : \A k \in 1..Len(liveMarkets) :
               liveMarkets[k].liquidity >= track.latest[d]

\* the same without the comparison with the markets that were dropped
C37_ListedAreLatest ==
    track.pc \in {"addLiveMarket", "scanMarketForArbitrage"} =>
        /\ Len(liveMarkets) = Min(MAX_LIVE_MARKETS, Cardinality(DOMAIN track.latest))
        /\ \A k \in 1..Len(liveMarkets) :
               /\ liveMarkets[k].slug \in DOMAIN track.latest
               /\ liveMarkets[k].liquidity = track.latest[liveMarkets[k].slug]

\* a market of the list was replaced with a lower liquidity than the latest
\* liquidity of a market the list had dropped before
C37_LowerThanDroppedReached ==
    /\ track.pc = "addLiveMarket"
    /\ track.op = "addLiveMarket"
    /\ track.present
    /\ track.slug \in Slugs(liveMarkets)
    /\ \E d \in Dropped37 : track.latest[d] > track.rank

(***************************************************************************)
(* Specifications                                                          *)
(***************************************************************************)
ScannersOff == ServiceOff /\ ServerOff /\ HandlerOff /\ UpstreamInit

\* no function is called on its own
UnitsIdle == TrackIdle /\ RiskIdle /\ AnalyzeIdle /\ ConfigIdle /\ AuxIdle /\ AutoIdle

InitGate == GateInit /\ BuilderIdle /\ ScannersOff /\ UnitsIdle
SpecGate == InitGate /\ [][GateNext]_vars

InitBuilder == GateIdle /\ BuilderInit /\ ScannersOff /\ UnitsIdle
SpecBuilder == InitBuilder /\ [][BuilderNext]_vars

\* one scan entry point per behaviour
Init ==
    /\ GateIdle
    /\ BuilderIdle
    /\ UpstreamInit
    /\ UnitsIdle
    /\ \/ ServiceInit /\ ServerOff /\ HandlerOff
       \/ ServiceOff /\ ServerInit /\ HandlerOff
       \/ ServiceOff /\ ServerOff /\ HandlerInit

Next ==
    \/ ServiceNext
    \/ ServerNext
    \/ HandlerNext

Spec == Init /\ [][Next]_vars

\* every await of a running cycle eventually settles
Fairness ==
    /\ WF_vars(ServiceStep)
    /\ WF_vars(ServerStep)

SpecLive == Init /\ [][Next]_vars /\ Fairness

\* calls of the list functions of part_002
InitTrack ==
    /\ GateIdle /\ BuilderIdle
    /\ ServiceOff /\ HandlerOff /\ UpstreamInit
    /\ srv = [ServerIdle EXCEPT !.pc = "off"]
    /\ TrackInit
    /\ RiskIdle /\ AnalyzeIdle /\ ConfigIdle /\ AuxIdle /\ AutoIdle
SpecTrack == InitTrack /\ [][TrackNext]_vars

\* calls of calculateRiskScore
InitRisk ==
    /\ GateIdle /\ BuilderIdle /\ ScannersOff
    /\ TrackIdle /\ RiskInit /\ AnalyzeIdle /\ ConfigIdle /\ AuxIdle /\ AutoIdle
SpecRisk == InitRisk /\ [][RiskNext]_vars

\* calls of analyzeMarket
InitAnalyze ==
    /\ GateIdle /\ BuilderIdle /\ ScannersOff
    /\ TrackIdle /\ RiskIdle /\ AnalyzeInit /\ ConfigIdle /\ AuxIdle /\ AutoIdle
SpecAnalyze == InitAnalyze /\ [][AnalyzeNext]_vars

\* updateConfig calls followed by one scan of PolyClaudeService
InitConfig ==
    /\ GateIdle /\ BuilderIdle /\ ScannersOff
    /\ TrackIdle /\ RiskIdle /\ AnalyzeIdle /\ ConfigInit /\ AuxIdle /\ AutoIdle
SpecConfig == InitConfig /\ [][ConfigNext]_vars

\* calls of the two addAlert functions
InitWindow ==
    /\ GateIdle /\ BuilderIdle /\ HandlerOff /\ UpstreamInit /\ UnitsIdle
    /\ isScanning = FALSE /\ stats = InitialStats /\ hasTelegram = FALSE
    /\ scan = [NoScan EXCEPT !.pc = "off"] /\ svcObs = NoObservation
    /\ nearMisses = << >> /\ liveMarkets = << >>
    /\ WindowInit
SpecWindow == InitWindow /\ [][WindowNext]_vars

\* the gate with its clear functions and a second gate instance
InitClear == GateInit /\ BuilderIdle /\ ScannersOff /\ UnitsIdle
SpecClear == InitClear /\ [][ClearNext]_vars

\* the service with its own gate: the alerts of runScan call the gate
InitAlerts ==
    /\ GateIdle /\ BuilderIdle
    /\ ServiceInit /\ hasTelegram
    /\ ServerOff /\ HandlerOff
    /\ UnitsIdle
    /\ AlertsUpstream
SpecAlerts == InitAlerts /\ [][AlertsNext]_vars

\* the service with its auto-scan timer; every await of a cycle settles
InitAuto ==
    /\ GateIdle /\ BuilderIdle
    /\ ServiceInit
    /\ ServerOff /\ HandlerOff
    /\ TrackIdle /\ RiskIdle /\ AnalyzeIdle /\ ConfigIdle /\ AuxIdle /\ AutoInit
    /\ AlertsUpstream
SpecAuto == InitAuto /\ [][AutoNext]_vars /\ WF_vars(ServiceStep)

=============================================================================
